---- MODULE Spec2Model ----
(***************************************************************************)
(* State-machine model of the Stablewealth investment / referral platform. *)
(*                                                                         *)
(* The state is the relational store (profiles, investment_plans,          *)
(* profit_distributions, transactions, referral_commissions,               *)
(* withdrawal_requests, deposit_requests), the wall clock, and the React   *)
(* state of the invest page.  Each action is one handler, stored           *)
(* procedure or script, taken as a whole.                                  *)
(*                                                                         *)
(* Conventions.                                                            *)
(*  - Money is counted in cents, so that 0.5 % of 100.00 is the integer    *)
(*    50.  Inputs are chosen so that every division of the code is exact.  *)
(*  - Time is counted in ticks; TicksPerDay ticks make the 24*60*60*1000   *)
(*    ms of one day.  A date string YYYY-MM-DD is the day number; the      *)
(*    code's comparison of ISO date strings is the comparison of day       *)
(*    numbers.                                                             *)
(*  - A select is modelled by its result on the table.  An insert, update  *)
(*    or rpc whose error result the code inspects may fail; the failure    *)
(*    is an input of the action.                                           *)
(***************************************************************************)
EXTENDS Integers, Sequences, FiniteSets, TLC

VARIABLES
    now,                   \* wall clock, in ticks
    profiles,              \* table profiles: id -> row
    investment_plans,      \* table investment_plans, in insertion order
    profit_distributions,  \* table profit_distributions, in insertion order
    transactions,          \* table transactions, in insertion order
    referral_commissions,  \* table referral_commissions, in insertion order
    withdrawal_requests,   \* table withdrawal_requests, in insertion order
    deposit_requests,      \* table deposit_requests, in insertion order
    tx_serial,             \* number of transaction ids handed out
    profile,               \* invest page: React state `profile`, per user
    finished_on,           \* day of the last run of distributeInvestmentProfits that
                           \* ran to completion, -1 before the first
    faults,                \* number of database writes that have failed so far
    calls,                 \* invocations in flight that overlap in time: the position
                           \* and the local variables of each
    response               \* outcome of the last operation

vars ==
    << now, profiles, investment_plans, profit_distributions, transactions,
       referral_commissions, withdrawal_requests, deposit_requests, tx_serial,
       profile, finished_on, faults, calls, response >>

(***************************************************************************)
(* Bounds of the model.                                                    *)
(***************************************************************************)
TicksPerDay ==
    2

MaxDays ==
    2

MaxPlans ==
    2

MaxTx ==
    4

\* at most MaxFaults database writes fail in one behaviour
MaxFaults ==
    1

MaxRequests ==
    2

MaxCalls ==
    1

\* invocations that overlap in time
MaxJobs ==
    2

(***************************************************************************)
(* Values.                                                                 *)
(***************************************************************************)
NoCode ==
    "none"

NoProfile ==
    -1

Rows(table) ==
    { table[i] : i \in DOMAIN table }

\* supabase .single(): the row when exactly one row matches, else no data
Single(rows) ==
    IF Cardinality(rows) = 1 THEN rows ELSE {}

\* toISOString().split('T')[0] of an instant: its UTC calendar day
DateOf(instant) ==
    instant \div TicksPerDay

Min(a, b) ==
    IF a < b THEN a ELSE b

RECURSIVE SeqSum(_)
SeqSum(s) ==
    IF s = << >> THEN 0 ELSE Head(s) + SeqSum(Tail(s))

(***************************************************************************)
(* The database as the application code sees it: the tables a service     *)
(* reads and writes, passed from call to call.                             *)
(***************************************************************************)
Db ==
    [ profiles |-> profiles,
      transactions |-> transactions,
      referral_commissions |-> referral_commissions,
      tx_serial |-> tx_serial ]

\* insert into transactions: the row gets the next id
InsertTransaction(db, row) ==
    [ db EXCEPT !.transactions = Append(@, [ row EXCEPT !.id = db.tx_serial + 1 ]),
                !.tx_serial = @ + 1 ]

TxRow(user_id, transaction_type, amount, net_amount, status, reference_id) ==
    [ id |-> 0, user_id |-> user_id, transaction_type |-> transaction_type,
      amount |-> amount, net_amount |-> net_amount, status |-> status,
      reference_id |-> reference_id ]

(***************************************************************************)
(* ReferralService                                                         *)
(***************************************************************************)
\* usdtRate is stored in units of 1/RateUnit percent, so that 0.5 % is 5
RateUnit ==
    10

commissionRates ==
    << [ level |-> 1, usdtRate |-> 100 ],
       [ level |-> 2, usdtRate |-> 50 ],
       [ level |-> 3, usdtRate |-> 30 ],
       [ level |-> 4, usdtRate |-> 20 ],
       [ level |-> 5, usdtRate |-> 10 ],
       [ level |-> 6, usdtRate |-> 5 ] >>

\* one level more than there are commission rates
MaxChainLevelsSeven ==
    Len(commissionRates) + 1

MaxChainLevels ==
    6

\* the loop body of getReferralChain, from `level` on
RECURSIVE getReferralChainFrom(_, _, _, _)
getReferralChainFrom(profs, currentUserId, level, chain) ==
    IF level > MaxChainLevels
    THEN chain
    ELSE
        IF currentUserId \notin DOMAIN profs \/ profs[currentUserId].sponsor_id = NoCode
        THEN chain
        ELSE
            LET referrer == Single({ id \in DOMAIN profs :
                                       profs[id].referral_code = profs[currentUserId].sponsor_id })
            IN  IF referrer = {}
                THEN chain
                ELSE
                    LET rid == CHOOSE id \in referrer : TRUE
                    IN  getReferralChainFrom(profs, rid, level + 1,
                                             Append(chain, [ id |-> rid, level |-> level ]))

getReferralChain(profs, userId) ==
    getReferralChainFrom(profs, userId, 1, << >>)

usdtCommissionWrongRate(transactionAmount, rates) ==
    (transactionAmount * rates.usdtRate) \div 100

usdtCommission(transactionAmount, rates) ==
    (transactionAmount * rates.usdtRate) \div (100 * RateUnit)

\* the transaction and the record are inserted before the wallet is updated
payCommissionRecordsFirst(db, referrerId, referredUserId, transactionAmount, rates, failCall) ==
    LET commission == usdtCommission(transactionAmount, rates)
        recorded == InsertTransaction(db,
                        TxRow(referrerId, "referral_bonus", commission, commission,
                              "completed", NoCode))
        tracked == [ recorded EXCEPT !.referral_commissions =
                        Append(@, [ referrer_id |-> referrerId,
                                    referred_id |-> referredUserId,
                                    commission_amount |-> commission,
                                    commission_percentage |-> commissionRates[rates.level].usdtRate,
                                    level |-> rates.level ]) ]
        credited == [ tracked EXCEPT !.profiles[referrerId].main_wallet_balance =
                                        @ + commission ]
    IN  CASE failCall = "transaction" -> [ db |-> db, threw |-> TRUE ]
          [] failCall = "record" -> [ db |-> recorded, threw |-> TRUE ]
          [] failCall = "update" -> [ db |-> tracked, threw |-> TRUE ]
          [] OTHER -> [ db |-> credited, threw |-> FALSE ]

\* failCall names the write of this payCommission that fails, "none" if none does
payCommission(db, referrerId, referredUserId, transactionAmount, rates, failCall) ==
    LET commission == usdtCommission(transactionAmount, rates)
        credited == [ db EXCEPT !.profiles[referrerId].main_wallet_balance = @ + commission ]
        recorded == InsertTransaction(credited,
                        TxRow(referrerId, "referral_bonus", commission, commission,
                              "completed", NoCode))
        tracked == [ recorded EXCEPT !.referral_commissions =
                        Append(@, [ referrer_id |-> referrerId,
                                    referred_id |-> referredUserId,
                                    commission_amount |-> commission,
                                    commission_percentage |-> commissionRates[rates.level].usdtRate,
                                    level |-> rates.level ]) ]
    IN  CASE failCall = "update" -> [ db |-> db, threw |-> TRUE ]
          [] failCall = "transaction" -> [ db |-> credited, threw |-> TRUE ]
          [] failCall = "record" -> [ db |-> recorded, threw |-> TRUE ]
          [] OTHER -> [ db |-> tracked, threw |-> FALSE ]

PayCalls ==
    { "update", "transaction", "record" }

\* a fault names the level whose payCommission fails and the failing write;
\* level 0 is the run in which no write fails
Faults ==
    { [ level |-> 0, call |-> "none" ] } \cup
    [ level : 1..MaxChainLevels, call : PayCalls ]

\* the for loop of processReferralCommissions, from index i (1-based) on
RECURSIVE payLevelsFrom(_, _, _, _, _, _)
payLevelsFrom(db, referralChain, i, userId, amount, fault) ==
    IF i > Len(referralChain) \/ i > Len(commissionRates)
    THEN [ db |-> db, threw |-> FALSE ]
    ELSE
        LET paid == payCommission(db, referralChain[i].id, userId, amount, commissionRates[i],
                                  IF fault.level = i THEN fault.call ELSE "none")
        IN  IF paid.threw
            THEN paid
            ELSE payLevelsFrom(paid.db, referralChain, i + 1, userId, amount, fault)

processReferralCommissions(db, userId, amount, fault) ==
    LET referralChain == getReferralChain(db.profiles, userId)
    IN  IF Len(referralChain) = 0
        THEN [ db |-> db, threw |-> FALSE ]
        ELSE payLevelsFrom(db, referralChain, 1, userId, amount, fault)

(***************************************************************************)
(* Invest page: fetchProfile and handleInvest                              *)
(***************************************************************************)
\* plans.A of the invest page
minAmount ==
    1000

maxAmount ==
    5000000

dailyPercentage ==
    3

\* amounts typed into the form: 5.00 (below the minimum) and 1000.00
InvestAmounts ==
    { 500, 100000 }

\* n more database writes fail
Fail(n) ==
    /\ faults + n <= MaxFaults
    /\ faults' = faults + n

Resp(op, result, failed) ==
    [ op |-> op, result |-> result, failed |-> failed ]

\* what a stored procedure was called with and what it returned
SqlResp(op, result, caller, request, user, amount) ==
    [ op |-> op, result |-> result, failed |-> FALSE, caller |-> caller,
      request |-> request, user |-> user, amount |-> amount ]

fetchProfile(u) ==
    /\ u \in DOMAIN profiles
    /\ profile' = [ profile EXCEPT ![u] = profiles[u].fund_wallet_balance ]
    /\ response' = Resp("fetchProfile", "ok", FALSE)
    /\ UNCHANGED << now, profiles, investment_plans, profit_distributions, transactions,
                    referral_commissions, withdrawal_requests, deposit_requests,
                    tx_serial, finished_on, calls, faults >>

PlanRow(u, investAmount) ==
    [ id |-> Len(investment_plans) + 1, user_id |-> u, plan_type |-> "A",
      investment_amount |-> investAmount, daily_percentage |-> dailyPercentage,
      total_profit_earned |-> 0, is_active |-> TRUE, created_at |-> now ]

InvestFails ==
    { "none", "plan", "update", "transaction" }

referralErrorRethrown(result, threw) ==
    IF threw THEN "error" ELSE result

\* catch (referralError): the error is logged and the handler goes on
referralErrorCaught(result, threw) ==
    result

\* fail names the write of handleInvest whose error is thrown; refFault is
\* the fault met by referralService.processReferralCommissions
handleInvest(u, investAmount, fail, refFault) ==
    /\ u \in DOMAIN profiles
    /\ Len(investment_plans) < MaxPlans
    /\ tx_serial < MaxTx
    /\ refFault.level <= Len(getReferralChain(profiles, u))
    /\ fail # "none" => refFault.level = 0
    /\ Fail((IF fail # "none" THEN 1 ELSE 0) + (IF refFault.level > 0 THEN 1 ELSE 0))
    /\ IF investAmount < minAmount \/ investAmount > maxAmount
       THEN /\ response' = Resp("handleInvest", "error_range", FALSE)
            /\ UNCHANGED << profiles, investment_plans, transactions,
                            referral_commissions, tx_serial >>
       ELSE IF profile[u] = NoProfile \/ investAmount > profile[u]
       THEN /\ response' = Resp("handleInvest", "error_insufficient", FALSE)
            /\ UNCHANGED << profiles, investment_plans, transactions,
                            referral_commissions, tx_serial >>
       ELSE IF fail = "plan"
       THEN /\ response' = Resp("handleInvest", "error", FALSE)
            /\ UNCHANGED << profiles, investment_plans, transactions,
                            referral_commissions, tx_serial >>
       ELSE
            LET deducted == [ Db EXCEPT !.profiles[u].fund_wallet_balance =
                                            profile[u] - investAmount ]
                recorded == InsertTransaction(deducted,
                                TxRow(u, "investment", investAmount, investAmount,
                                      "completed", NoCode))
                referral == processReferralCommissions(recorded, u, investAmount, refFault)
            IN  /\ investment_plans' = Append(investment_plans, PlanRow(u, investAmount))
                /\ IF fail = "update"
                   THEN /\ response' = Resp("handleInvest", "error", FALSE)
                        /\ UNCHANGED << profiles, transactions, referral_commissions,
                                        tx_serial >>
                   ELSE IF fail = "transaction"
                   THEN /\ response' = Resp("handleInvest", "error", FALSE)
                        /\ profiles' = deducted.profiles
                        /\ UNCHANGED << transactions, referral_commissions, tx_serial >>
                   ELSE /\ response' = Resp("handleInvest",
                                         referralErrorCaught("success", referral.threw),
                                         referral.threw)
                        /\ profiles' = referral.db.profiles
                        /\ transactions' = referral.db.transactions
                        /\ referral_commissions' = referral.db.referral_commissions
                        /\ tx_serial' = referral.db.tx_serial
    /\ UNCHANGED << now, profit_distributions, withdrawal_requests, deposit_requests,
                    profile, finished_on, calls >>

(***************************************************************************)
(* The wall clock: `new Date()`                                            *)
(***************************************************************************)
Tick ==
    /\ now + 1 < MaxDays * TicksPerDay
    /\ now' = now + 1
    /\ response' = Resp("tick", "ok", FALSE)
    /\ UNCHANGED << profiles, investment_plans, profit_distributions, transactions,
                    referral_commissions, withdrawal_requests, deposit_requests,
                    tx_serial, profile, finished_on, calls, faults >>

(***************************************************************************)
(* distributeInvestmentProfits                                             *)
(***************************************************************************)
DistributionsOfOthers(plan) ==
    { d \in Rows(profit_distributions) : d.plan_id # plan.id }

\* .from('profit_distributions').eq('plan_id', plan.id)
DistributionsOf(plan) ==
    { d \in Rows(profit_distributions) : d.plan_id = plan.id }

\* creationDate normalised to 00:00 UTC plus 24 hours, as a date
firstDistributionDate(plan) ==
    DateOf(plan.created_at) + 1

nextDistributionDate(plan) ==
    LET lastDistribution == { d \in DistributionsOf(plan) :
                                \A e \in DistributionsOf(plan) :
                                    e.distribution_date <= d.distribution_date }
    IN  IF lastDistribution # {}
        THEN (CHOOSE d \in lastDistribution : TRUE).distribution_date + 1
        ELSE firstDistributionDate(plan)

IsDueFirstDateOnly(plan, today) ==
    ~ (today < firstDistributionDate(plan))

\* a plan is queued on the day after its last distribution only
IsDueOnNextDateOnly(plan, today) ==
    /\ ~ (today < firstDistributionDate(plan))
    /\ { d \in DistributionsOf(plan) : d.distribution_date = today } = {}
    /\ today = nextDistributionDate(plan)

\* the three tests a plan passes before it is queued for `today`
IsDue(plan, today) ==
    /\ ~ (today < firstDistributionDate(plan))
    /\ { d \in DistributionsOf(plan) : d.distribution_date = today } = {}
    /\ today >= nextDistributionDate(plan)

profitAmountNoPercent(plan) ==
    plan.investment_amount * plan.daily_percentage

profitAmount(plan) ==
    (plan.investment_amount * plan.daily_percentage) \div 100

\* one key for every queued row
userUpdateKeysPerPlan(queue, keys) ==
    [ i \in DOMAIN queue |-> queue[i].user_id ]

\* the keys of the Map userUpdates, in insertion order
RECURSIVE userUpdateKeys(_, _)
userUpdateKeys(queue, keys) ==
    IF queue = << >>
    THEN keys
    ELSE userUpdateKeys(Tail(queue),
                        IF \E i \in DOMAIN keys : keys[i] = Head(queue).user_id
                        THEN keys
                        ELSE Append(keys, Head(queue).user_id))

\* the value of the Map userUpdates at userId
userUpdates(queue, userId) ==
    SeqSum([ i \in DOMAIN queue |->
                IF queue[i].user_id = userId THEN queue[i].profit_amount ELSE 0 ])

\* a wallet loop whose writes are all applied, whatever failed
RECURSIVE updateWalletsAllApplied(_, _, _, _, _)
updateWalletsAllApplied(db, keys, queue, walletError, transactionError) ==
    IF keys = << >>
    THEN db
    ELSE
        LET userId == Head(keys)
            totalProfit == userUpdates(queue, userId)
            credited == [ db EXCEPT !.profiles[userId].main_wallet_balance = @ + totalProfit ]
            recorded == InsertTransaction(credited,
                            TxRow(userId, "profit", totalProfit, totalProfit,
                                  "completed", NoCode))
        IN  updateWalletsAllApplied(recorded, Tail(keys), queue, walletError,
                                    transactionError)

\* the loop over userUpdates.entries(), from the first of `keys` on
RECURSIVE updateWallets(_, _, _, _, _)
updateWallets(db, keys, queue, walletError, transactionError) ==
    IF keys = << >>
    THEN db
    ELSE
        LET userId == Head(keys)
            totalProfit == userUpdates(queue, userId)
            credited == [ db EXCEPT !.profiles[userId].main_wallet_balance = @ + totalProfit ]
            recorded == InsertTransaction(credited,
                            TxRow(userId, "profit", totalProfit, totalProfit,
                                  "completed", NoCode))
            after == IF userId \in walletError THEN db
                     ELSE IF userId \in transactionError THEN credited
                     ELSE recorded
        IN  updateWallets(after, Tail(keys), queue, walletError, transactionError)

\* the profit is added to the principal as well
updatePlanTotalsCompounding(plans, queue, planUpdateError) ==
    [ i \in DOMAIN plans |->
        IF \E j \in DOMAIN queue : queue[j].plan_id = plans[i].id
        THEN [ plans[i] EXCEPT !.total_profit_earned = @ + profitAmount(plans[i]),
                               !.investment_amount = @ + profitAmount(plans[i]) ]
        ELSE plans[i] ]

\* the loop over profitDistributions that updates total_profit_earned
updatePlanTotals(plans, queue, planUpdateError) ==
    [ i \in DOMAIN plans |->
        IF /\ \E j \in DOMAIN queue : queue[j].plan_id = plans[i].id
           /\ plans[i].id \notin planUpdateError
        THEN [ plans[i] EXCEPT !.total_profit_earned =
                  @ + SeqSum([ j \in DOMAIN queue |->
                                 IF queue[j].plan_id = plans[i].id
                                 THEN queue[j].profit_amount ELSE 0 ]) ]
        ELSE plans[i] ]

\* a run that returns on a database error has not run to completion
LogRun(result) ==
    /\ finished_on' = IF result = "aborted" THEN finished_on ELSE DateOf(now)
    /\ UNCHANGED calls

\* the active plans, joined with their profile, that the run queues at instant `now`
DuePlans ==
    SelectSeq(investment_plans,
              LAMBDA p : p.is_active /\ p.user_id \in DOMAIN profiles /\ IsDue(p, DateOf(now)))

distributeInvestmentProfits(distributionError, walletError, transactionError, planUpdateError) ==
    LET plans == SelectSeq(investment_plans,
                           LAMBDA p : p.is_active /\ p.user_id \in DOMAIN profiles)
        today == DateOf(now)
        due == DuePlans
        profitDistributions ==
            [ i \in DOMAIN due |->
                [ plan_id |-> due[i].id, user_id |-> due[i].user_id,
                  profit_amount |-> profitAmount(due[i]),
                  distribution_date |-> today ] ]
        keys == userUpdateKeys(profitDistributions, << >>)
        written == updateWallets(Db, keys, profitDistributions, walletError, transactionError)
    IN  /\ Fail((IF distributionError THEN 1 ELSE 0) + Cardinality(walletError)
                + Cardinality(transactionError) + Cardinality(planUpdateError))
        /\ walletError \subseteq { due[i].user_id : i \in DOMAIN due }
        /\ transactionError \subseteq { due[i].user_id : i \in DOMAIN due } \ walletError
        /\ planUpdateError \subseteq { due[i].id : i \in DOMAIN due }
        /\ distributionError =>
              /\ due # << >>
              /\ walletError = {} /\ transactionError = {} /\ planUpdateError = {}
        /\ IF plans = << >>
           THEN /\ response' = Resp("distribute", "no_plans", FALSE)
                /\ LogRun("no_plans")
                /\ UNCHANGED << profiles, investment_plans, profit_distributions,
                                transactions, tx_serial >>
           ELSE IF due = << >>
           THEN /\ response' = Resp("distribute", "nothing", FALSE)
                /\ LogRun("nothing")
                /\ UNCHANGED << profiles, investment_plans, profit_distributions,
                                transactions, tx_serial >>
           ELSE IF distributionError
           THEN /\ response' = Resp("distribute", "aborted", TRUE)
                /\ LogRun("aborted")
                /\ UNCHANGED << profiles, investment_plans, profit_distributions,
                                transactions, tx_serial >>
           ELSE /\ response' = Resp("distribute", "completed",
                                    walletError # {} \/ transactionError # {}
                                        \/ planUpdateError # {})
                /\ LogRun("completed")
                /\ profit_distributions' = profit_distributions \o profitDistributions
                /\ profiles' = written.profiles
                /\ transactions' = written.transactions
                /\ tx_serial' = written.tx_serial
                /\ investment_plans' =
                       updatePlanTotals(investment_plans, profitDistributions, planUpdateError)
        /\ UNCHANGED << now, referral_commissions, withdrawal_requests, deposit_requests,
                        profile >>

(***************************************************************************)
(* The reset script (one SQL transaction, steps 1 to 4)                    *)
(***************************************************************************)
ResetCancelsAllCompleted(t) ==
    \/ t.transaction_type = "withdrawal" /\ t.status = "pending"
    \/ t.status = "completed"

\* the WHERE clauses of steps 1 and 4
ResetCancels(t) ==
    \/ t.transaction_type = "withdrawal" /\ t.status = "pending"
    \/ t.transaction_type = "profit" /\ t.status = "completed"

ResetScript ==
    /\ transactions' =
          [ i \in DOMAIN transactions |->
              IF ResetCancels(transactions[i])
              THEN [ transactions[i] EXCEPT !.status = "cancelled" ]
              ELSE transactions[i] ]
    /\ investment_plans' =
          [ i \in DOMAIN investment_plans |->
              IF investment_plans[i].total_profit_earned > 0
              THEN [ investment_plans[i] EXCEPT !.total_profit_earned = 0 ]
              ELSE investment_plans[i] ]
    /\ profiles' =
          [ id \in DOMAIN profiles |->
              IF profiles[id].main_wallet_balance > 0
              THEN [ profiles[id] EXCEPT !.main_wallet_balance = 0 ]
              ELSE profiles[id] ]
    /\ response' = Resp("reset", "ok", FALSE)
    /\ UNCHANGED << now, profit_distributions, referral_commissions, withdrawal_requests,
                    deposit_requests, tx_serial, profile, finished_on, calls, faults >>

(***************************************************************************)
(* /api/bsc/deposit: POST (submission) and PUT (approval)                  *)
(***************************************************************************)
\* NaN; also the amount of a call that carries none
NoAmount ==
    -1

\* the expectedAmount of a request body is a string, written here as the
\* sequence of its characters; a missing field and "" are both << >>
DigitValue(c) ==
    CASE c = "0" -> 0 [] c = "1" -> 1 [] c = "2" -> 2 [] c = "3" -> 3 [] c = "4" -> 4
      [] c = "5" -> 5 [] c = "6" -> 6 [] c = "7" -> 7 [] c = "8" -> 8 [] c = "9" -> 9
      [] OTHER -> NoAmount

\* the number of leading characters of str, after the first n, that are digits
RECURSIVE DigitPrefix(_, _)
DigitPrefix(str, n) ==
    IF n < Len(str) /\ DigitValue(str[n + 1]) # NoAmount
    THEN DigitPrefix(str, n + 1)
    ELSE n

RECURSIVE DecimalValue(_, _)
DecimalValue(str, n) ==
    IF n = 0 THEN 0 ELSE 10 * DecimalValue(str, n - 1) + DigitValue(str[n])

\* parseFloat(str), in cents: the value of the longest prefix of str that is
\* a number, NaN when str does not start with one
parseFloat(str) ==
    IF DigitPrefix(str, 0) = 0
    THEN NoAmount
    ELSE 100 * DecimalValue(str, DigitPrefix(str, 0))

minDeposit ==
    1000

maxDeposit ==
    5000000

\* the rpc process_bsc_deposit: credits the net amount to the fund wallet
process_bsc_deposit(db, p_user_id, p_net_amount) ==
    [ db EXCEPT !.profiles[p_user_id].fund_wallet_balance = @ + p_net_amount ]

\* userId, txHash: NoCode when the field is missing
PostDeposit(userId, txHash, expectedAmount, insertError) ==
    LET existingTx == Single({ t \in Rows(transactions) : t.reference_id = txHash })
        expectedAmountNum == parseFloat(expectedAmount)
        depositAmount == parseFloat(expectedAmount)
        inserted == InsertTransaction(Db,
                        TxRow(userId, "deposit", depositAmount, NoAmount, "pending", txHash))
        status == IF userId = NoCode THEN "400"
                  ELSE IF txHash = NoCode THEN "400"
                  ELSE IF expectedAmount = << >> \/ parseFloat(expectedAmount) = NoAmount
                  THEN "400"
                  ELSE IF expectedAmountNum < minDeposit THEN "400"
                  ELSE IF expectedAmountNum > maxDeposit THEN "400"
                  ELSE IF userId \notin DOMAIN profiles THEN "404"
                  ELSE IF existingTx # {} THEN "400"
                  ELSE IF insertError THEN "500"
                  ELSE "success"
    IN  /\ tx_serial < MaxTx
        /\ insertError => status = "500"
        /\ Fail(IF insertError THEN 1 ELSE 0)
        /\ response' = [ op |-> "POST deposit", result |-> status, failed |-> insertError,
                          userId |-> userId, txHash |-> txHash,
                          expectedAmount |-> expectedAmount ]
        /\ IF status = "success"
           THEN /\ transactions' = inserted.transactions
                /\ tx_serial' = inserted.tx_serial
           ELSE UNCHANGED << transactions, tx_serial >>
        /\ UNCHANGED << now, profiles, investment_plans, profit_distributions,
                        referral_commissions, withdrawal_requests, deposit_requests,
                        profile, finished_on, calls >>

feeNone(depositAmount) ==
    0

\* fee = depositAmount * 0.01
fee(depositAmount) ==
    depositAmount \div 100

\* transactionId 0: the field is missing; approve: "true", "false" or "undefined"
PutDeposit(transactionId, approve, depositError, refFault) ==
    LET found == Single({ t \in Rows(transactions) :
                            /\ t.id = transactionId
                            /\ t.transaction_type = "deposit"
                            /\ t.status = "pending" })
        transaction == CHOOSE t \in found : TRUE
        depositAmount == transaction.amount
        netAmount == depositAmount - fee(depositAmount)
        deposited == process_bsc_deposit(Db, transaction.user_id, netAmount)
        referral == processReferralCommissions(deposited, transaction.user_id,
                                               depositAmount, refFault)
        completed == [ i \in DOMAIN referral.db.transactions |->
                         IF referral.db.transactions[i].id = transactionId
                         THEN [ referral.db.transactions[i] EXCEPT !.status = "completed" ]
                         ELSE referral.db.transactions[i] ]
        reaches_rpc == transactionId # 0 /\ approve = "true" /\ found # {}
    IN  /\ tx_serial < MaxTx
        /\ depositError => reaches_rpc
        /\ refFault.level > 0 =>
              /\ reaches_rpc /\ ~ depositError
              /\ refFault.level <= Len(getReferralChain(profiles, transaction.user_id))
        /\ Fail((IF depositError THEN 1 ELSE 0) + (IF refFault.level > 0 THEN 1 ELSE 0))
        /\ IF transactionId = 0 \/ approve = "undefined"
           THEN /\ response' = Resp("PUT deposit", "400", FALSE)
                /\ UNCHANGED << profiles, transactions, referral_commissions, tx_serial >>
           ELSE IF found = {}
           THEN /\ response' = Resp("PUT deposit", "404", FALSE)
                /\ UNCHANGED << profiles, transactions, referral_commissions, tx_serial >>
           ELSE IF approve = "false"
           THEN /\ response' = Resp("PUT deposit", "success", FALSE)
                /\ transactions' = SelectSeq(transactions, LAMBDA t : t.id # transactionId)
                /\ UNCHANGED << profiles, referral_commissions, tx_serial >>
           ELSE IF depositError
           THEN /\ response' = Resp("PUT deposit", "500", TRUE)
                /\ UNCHANGED << profiles, transactions, referral_commissions, tx_serial >>
           ELSE /\ response' = Resp("PUT deposit approve",
                                         referralErrorCaught("success", referral.threw),
                                         referral.threw)
                /\ profiles' = referral.db.profiles
                /\ transactions' = completed
                /\ referral_commissions' = referral.db.referral_commissions
                /\ tx_serial' = referral.db.tx_serial
        /\ UNCHANGED << now, investment_plans, profit_distributions, withdrawal_requests,
                        deposit_requests, profile, finished_on, calls >>

(***************************************************************************)
(* Manual deposit requests                                                 *)
(***************************************************************************)
\* a user files a deposit request for a transfer with hash tx_hash
CreateDepositRequest(user_id, amount, tx_hash) ==
    /\ Len(deposit_requests) < MaxRequests
    /\ user_id \in DOMAIN profiles
    /\ deposit_requests' =
          Append(deposit_requests,
                 [ id |-> Len(deposit_requests) + 1, user_id |-> user_id,
                   amount |-> amount, tx_hash |-> tx_hash, status |-> "pending" ])
    /\ response' = Resp("create deposit request", "success", FALSE)
    /\ UNCHANGED << now, profiles, investment_plans, profit_distributions, transactions,
                    referral_commissions, withdrawal_requests, tx_serial, profile,
                    finished_on, calls, faults >>

SetRequestStatusAll(requests, id, status) ==
    [ i \in DOMAIN requests |-> [ requests[i] EXCEPT !.status = status ] ]

\* UPDATE ... SET status WHERE id = p_request_id
SetRequestStatus(requests, id, status) ==
    [ i \in DOMAIN requests |->
        IF requests[i].id = id THEN [ requests[i] EXCEPT !.status = status ]
        ELSE requests[i] ]

\* caller is auth.uid(), which the body never reads; sqlError: a statement
\* of the body raises, the handler returns the error
process_manual_deposit_approval(caller, p_request_id, p_admin_id, sqlError) ==
    LET call == SqlResp("process_manual_deposit_approval", "success", caller,
                        p_request_id, NoCode, NoAmount)
        found == { r \in Rows(deposit_requests) :
                     r.id = p_request_id /\ r.status = "pending" }
        v_request == CHOOSE r \in found : TRUE
        v_fee_amount == v_request.amount \div 100
        v_net_amount == v_request.amount - v_fee_amount
        inserted == InsertTransaction(Db,
                        TxRow(v_request.user_id, "deposit", v_net_amount, v_net_amount,
                              "completed", v_request.tx_hash))
    IN  /\ tx_serial < MaxTx
        /\ sqlError => found # {}
        /\ Fail(IF sqlError THEN 1 ELSE 0)
        /\ IF found = {}
           THEN /\ response' = [ call EXCEPT !.result = "not_found" ]
                /\ UNCHANGED << profiles, transactions, tx_serial, deposit_requests >>
           ELSE IF sqlError
           THEN /\ response' = [ call EXCEPT !.result = "error", !.failed = TRUE ]
                /\ UNCHANGED << profiles, transactions, tx_serial, deposit_requests >>
           ELSE /\ response' = call
                /\ transactions' = inserted.transactions
                /\ tx_serial' = inserted.tx_serial
                /\ profiles' = [ profiles EXCEPT
                                   ![v_request.user_id].main_wallet_balance = @ + v_net_amount ]
                /\ deposit_requests' =
                       SetRequestStatus(deposit_requests, p_request_id, "approved")
        /\ UNCHANGED << now, investment_plans, profit_distributions, referral_commissions,
                        withdrawal_requests, profile, finished_on, calls >>

reject_manual_deposit(caller, p_request_id, p_admin_id) ==
    LET call == SqlResp("reject_manual_deposit", "success", caller, p_request_id,
                        NoCode, NoAmount)
        found == { r \in Rows(deposit_requests) :
                     r.id = p_request_id /\ r.status = "pending" }
    IN  /\ IF found = {}
           THEN /\ response' = [ call EXCEPT !.result = "not_found" ]
                /\ UNCHANGED deposit_requests
           ELSE /\ response' = call
                /\ deposit_requests' =
                       SetRequestStatus(deposit_requests, p_request_id, "rejected")
        /\ UNCHANGED << now, profiles, investment_plans, profit_distributions, transactions,
                        referral_commissions, withdrawal_requests, tx_serial, profile,
                        finished_on, calls, faults >>

(***************************************************************************)
(* Withdrawal requests and the admin fund procedures                       *)
(***************************************************************************)
\* p_request_id::TEXT
RequestRef(id) ==
    ToString(id)

\* a user asks to withdraw `amount`: a pending request and its pending
\* withdrawal transaction, which carries the request id as reference_id
CreateWithdrawalRequest(user_id, amount) ==
    LET id == Len(withdrawal_requests) + 1
        inserted == InsertTransaction(Db,
                        TxRow(user_id, "withdrawal", amount, amount, "pending",
                              RequestRef(id)))
    IN  /\ Len(withdrawal_requests) < MaxRequests
        /\ tx_serial < MaxTx
        /\ user_id \in DOMAIN profiles
        /\ withdrawal_requests' =
              Append(withdrawal_requests,
                     [ id |-> id, user_id |-> user_id, amount |-> amount,
                       status |-> "pending" ])
        /\ transactions' = inserted.transactions
        /\ tx_serial' = inserted.tx_serial
        /\ response' = Resp("create withdrawal request", "success", FALSE)
        /\ UNCHANGED << now, profiles, investment_plans, profit_distributions,
                        referral_commissions, deposit_requests, profile, finished_on, calls,
                        faults >>

\* auth.uid() is flagged is_admin
IsAdmin(caller) ==
    caller \in DOMAIN profiles /\ profiles[caller].is_admin

\* UPDATE transactions SET status WHERE reference_id = p_request_id::TEXT
\* AND transaction_type = 'withdrawal'
SetWithdrawalTxStatus(p_request_id, status) ==
    [ i \in DOMAIN transactions |->
        IF /\ transactions[i].reference_id = RequestRef(p_request_id)
           /\ transactions[i].transaction_type = "withdrawal"
        THEN [ transactions[i] EXCEPT !.status = status ]
        ELSE transactions[i] ]

\* RAISE EXCEPTION: the statements of the call are rolled back
Raise(call, message) ==
    /\ response' = [ call EXCEPT !.result = message ]
    /\ UNCHANGED << profiles, transactions, withdrawal_requests, tx_serial >>

InsufficientNever(balance, amount) ==
    FALSE

\* the test that makes a withdrawal or deduction raise
Insufficient(balance, amount) ==
    balance < amount

SelectAnyStatus(p_request_id) ==
    { r \in Rows(withdrawal_requests) : r.id = p_request_id }

\* WHERE id = p_request_id AND status = 'pending'
SelectPending(p_request_id) ==
    { r \in Rows(withdrawal_requests) : r.id = p_request_id /\ r.status = "pending" }

approve_withdrawal_request(caller, p_request_id) ==
    LET call == SqlResp("approve_withdrawal_request", "success", caller, p_request_id, NoCode, NoAmount)
        found == SelectPending(p_request_id)
        withdrawal_record == CHOOSE r \in found : TRUE
        user_balance == profiles[withdrawal_record.user_id].main_wallet_balance
    IN  /\ IF ~ IsAdmin(caller)
           THEN Raise(call, "raise_access_denied")
           ELSE IF found = {}
           THEN Raise(call, "raise_not_found")
           ELSE IF Insufficient(user_balance, withdrawal_record.amount)
           THEN Raise(call, "raise_insufficient")
           ELSE /\ profiles' = [ profiles EXCEPT
                                   ![withdrawal_record.user_id].main_wallet_balance =
                                       @ - withdrawal_record.amount ]
                /\ withdrawal_requests' =
                       SetRequestStatus(withdrawal_requests, p_request_id, "approved")
                /\ transactions' = SetWithdrawalTxStatus(p_request_id, "completed")
                /\ response' = call
                /\ UNCHANGED tx_serial
        /\ UNCHANGED << now, investment_plans, profit_distributions, referral_commissions,
                        deposit_requests, profile, finished_on, calls, faults >>

reject_withdrawal_request(caller, p_request_id) ==
    LET call == SqlResp("reject_withdrawal_request", "success", caller, p_request_id, NoCode, NoAmount)
        found == SelectPending(p_request_id)
    IN  /\ IF ~ IsAdmin(caller)
           THEN Raise(call, "raise_access_denied")
           ELSE IF found = {}
           THEN Raise(call, "raise_not_found")
           ELSE /\ withdrawal_requests' =
                       SetRequestStatus(withdrawal_requests, p_request_id, "rejected")
                /\ transactions' = SetWithdrawalTxStatus(p_request_id, "failed")
                /\ response' = call
                /\ UNCHANGED << profiles, tx_serial >>
        /\ UNCHANGED << now, investment_plans, profit_distributions, referral_commissions,
                        deposit_requests, profile, finished_on, calls, faults >>

admin_add_funds_to_user(caller, p_user_id, p_amount) ==
    LET call == SqlResp("admin_add_funds_to_user", "success", caller, 0, p_user_id, p_amount)
        inserted == InsertTransaction(Db,
                        TxRow(p_user_id, "deposit", p_amount, p_amount, "completed",
                              "ADMIN_ADD_" \o ToString(now)))
    IN  /\ tx_serial < MaxTx
        /\ IF ~ IsAdmin(caller)
           THEN Raise(call, "raise_access_denied")
           ELSE IF p_amount <= 0
           THEN Raise(call, "raise_amount")
           ELSE IF p_user_id \notin DOMAIN profiles
           THEN Raise(call, "raise_user_not_found")
           ELSE /\ profiles' = [ inserted.profiles EXCEPT
                                   ![p_user_id].main_wallet_balance = @ + p_amount ]
                /\ transactions' = inserted.transactions
                /\ tx_serial' = inserted.tx_serial
                /\ response' = call
                /\ UNCHANGED withdrawal_requests
        /\ UNCHANGED << now, investment_plans, profit_distributions, referral_commissions,
                        deposit_requests, profile, finished_on, calls, faults >>

admin_deduct_funds_from_user(caller, p_user_id, p_amount) ==
    LET call == SqlResp("admin_deduct_funds_from_user", "success", caller, 0, p_user_id, p_amount)
        inserted == InsertTransaction(Db,
                        TxRow(p_user_id, "withdrawal", p_amount, p_amount, "completed",
                              "ADMIN_DEDUCT_" \o ToString(now)))
    IN  /\ tx_serial < MaxTx
        /\ IF ~ IsAdmin(caller)
           THEN Raise(call, "raise_access_denied")
           ELSE IF p_amount <= 0
           THEN Raise(call, "raise_amount")
           ELSE IF p_user_id \notin DOMAIN profiles
           THEN Raise(call, "raise_user_not_found")
           ELSE IF Insufficient(profiles[p_user_id].main_wallet_balance, p_amount)
           THEN Raise(call, "raise_insufficient")
           ELSE /\ profiles' = [ inserted.profiles EXCEPT
                                   ![p_user_id].main_wallet_balance = @ - p_amount ]
                /\ transactions' = inserted.transactions
                /\ tx_serial' = inserted.tx_serial
                /\ response' = call
                /\ UNCHANGED withdrawal_requests
        /\ UNCHANGED << now, investment_plans, profit_distributions, referral_commissions,
                        deposit_requests, profile, finished_on, calls, faults >>

admin_add_jarvis_tokens(caller, p_user_id, p_amount) ==
    LET call == SqlResp("admin_add_jarvis_tokens", "success", caller, 0, p_user_id, p_amount)
        inserted == InsertTransaction(Db,
                        TxRow(p_user_id, "jarvis_token_add", p_amount, p_amount, "completed",
                              "ADMIN_JRV_ADD_" \o ToString(now)))
    IN  /\ tx_serial < MaxTx
        /\ IF ~ IsAdmin(caller)
           THEN Raise(call, "raise_access_denied")
           ELSE IF p_amount <= 0
           THEN Raise(call, "raise_amount")
           ELSE IF p_user_id \notin DOMAIN profiles
           THEN Raise(call, "raise_user_not_found")
           ELSE /\ profiles' = [ inserted.profiles EXCEPT
                                   ![p_user_id].total_jarvis_tokens = @ + p_amount ]
                /\ transactions' = inserted.transactions
                /\ tx_serial' = inserted.tx_serial
                /\ response' = call
                /\ UNCHANGED withdrawal_requests
        /\ UNCHANGED << now, investment_plans, profit_distributions, referral_commissions,
                        deposit_requests, profile, finished_on, calls, faults >>

admin_deduct_jarvis_tokens(caller, p_user_id, p_amount) ==
    LET call == SqlResp("admin_deduct_jarvis_tokens", "success", caller, 0, p_user_id,
                        p_amount)
        inserted == InsertTransaction(Db,
                        TxRow(p_user_id, "jarvis_token_deduct", p_amount, p_amount,
                              "completed", "ADMIN_JRV_DEDUCT_" \o ToString(now)))
    IN  /\ tx_serial < MaxTx
        /\ IF ~ IsAdmin(caller)
           THEN Raise(call, "raise_access_denied")
           ELSE IF p_amount <= 0
           THEN Raise(call, "raise_amount")
           ELSE IF p_user_id \notin DOMAIN profiles
           THEN Raise(call, "raise_user_not_found")
           ELSE IF Insufficient(profiles[p_user_id].total_jarvis_tokens, p_amount)
           THEN Raise(call, "raise_insufficient")
           ELSE /\ profiles' = [ inserted.profiles EXCEPT
                                   ![p_user_id].total_jarvis_tokens = @ - p_amount ]
                /\ transactions' = inserted.transactions
                /\ tx_serial' = inserted.tx_serial
                /\ response' = call
                /\ UNCHANGED withdrawal_requests
        /\ UNCHANGED << now, investment_plans, profit_distributions, referral_commissions,
                        deposit_requests, profile, finished_on, calls, faults >>

(***************************************************************************)
(* Initial states                                                          *)
(***************************************************************************)
ProfileRow(referral_code, sponsor_id, main, fund, is_admin) ==
    [ referral_code |-> referral_code, sponsor_id |-> sponsor_id,
      main_wallet_balance |-> main, fund_wallet_balance |-> fund,
      total_jarvis_tokens |-> 0, is_admin |-> is_admin ]

\* an administrator and two users, each sponsored by the one before; the
\* users hold 1010.00 of approved deposits in their fund wallets
InitProfiles ==
    [ u \in { "u1", "u2", "u3" } |->
        CASE u = "u1" -> ProfileRow("c1", NoCode, 0, 0, TRUE)
          [] u = "u2" -> ProfileRow("c2", "c1", 0, 101000, FALSE)
          [] u = "u3" -> ProfileRow("c3", "c2", 0, 101000, FALSE) ]

EmptyTables ==
    /\ investment_plans = << >>
    /\ profit_distributions = << >>
    /\ transactions = << >>
    /\ referral_commissions = << >>
    /\ withdrawal_requests = << >>
    /\ deposit_requests = << >>
    /\ tx_serial = 0
    /\ finished_on = -1
    /\ calls = << >>
    /\ faults = 0
    /\ response = Resp("init", "ok", FALSE)

Init ==
    /\ now = 0
    /\ profiles = InitProfiles
    /\ profile = [ u \in DOMAIN InitProfiles |-> NoProfile ]
    /\ EmptyTables

\* The distribution job is checked from the states the invest page leaves
\* at the end of day 0: two users without a sponsor who started with
\* 4040.00 in the fund wallet and made up to MaxPlans investments of
\* 1000.00 during day 0 (u1 being the one who invested first).
PlanAmounts ==
    { a \in InvestAmounts : a >= minAmount /\ a <= maxAmount }

InvestorProfiles(plans) ==
    [ u \in { "u1", "u2" } |->
        ProfileRow(IF u = "u1" THEN "c1" ELSE "c2", NoCode, 0,
                   404000 - SeqSum([ i \in DOMAIN plans |->
                                       IF plans[i].user_id = u
                                       THEN plans[i].investment_amount ELSE 0 ]),
                   FALSE) ]

InitDist ==
    /\ now = TicksPerDay - 1
    /\ \E n \in 1..MaxPlans :
         \E owner \in [ 1..n -> { "u1", "u2" } ],
            amount \in [ 1..n -> PlanAmounts ],
            created \in [ 1..n -> 0..(TicksPerDay - 1) ] :
            /\ owner[1] = "u1"
            /\ \A i \in 1..n : \A j \in 1..n : i <= j => created[i] <= created[j]
            /\ investment_plans =
                  [ i \in 1..n |->
                      [ id |-> i, user_id |-> owner[i], plan_type |-> "A",
                        investment_amount |-> amount[i],
                        daily_percentage |-> dailyPercentage,
                        total_profit_earned |-> 0, is_active |-> TRUE,
                        created_at |-> created[i] ] ]
            /\ transactions =
                  [ i \in 1..n |->
                      [ TxRow(owner[i], "investment", amount[i], amount[i],
                              "completed", NoCode) EXCEPT !.id = i ] ]
            /\ tx_serial = n
            /\ profiles = InvestorProfiles(investment_plans)
    /\ profile = [ u \in { "u1", "u2" } |-> NoProfile ]
    /\ profit_distributions = << >>
    /\ referral_commissions = << >>
    /\ withdrawal_requests = << >>
    /\ deposit_requests = << >>
    /\ finished_on = -1
    /\ calls = << >>
    /\ faults = 0
    /\ response = Resp("init", "ok", FALSE)

(***************************************************************************)
(* The profit distribution job over two days                               *)
(***************************************************************************)
DistributeStep ==
    \E distributionError \in IF DuePlans = << >> THEN { FALSE } ELSE BOOLEAN,
       walletError \in SUBSET { DuePlans[i].user_id : i \in DOMAIN DuePlans } :
      \E transactionError \in SUBSET ({ DuePlans[i].user_id : i \in DOMAIN DuePlans } \ walletError),
         planUpdateError \in SUBSET { DuePlans[i].id : i \in DOMAIN DuePlans } :
        distributeInvestmentProfits(distributionError, walletError, transactionError,
                                    planUpdateError)

NextDist ==
    \/ Tick
    \/ DistributeStep

SpecDist ==
    InitDist /\ [][NextDist]_vars

(***************************************************************************)
(* Properties of the profit distribution job (SpecDist)                    *)
(***************************************************************************)
PlanOf(d) ==
    CHOOSE p \in Rows(investment_plans) : p.id = d.plan_id

\* the rows a step appends to profit_distributions
NewDistributions ==
    { profit_distributions'[i] :
        i \in (DOMAIN profit_distributions') \ (DOMAIN profit_distributions) }

RECURSIVE SetSum(_)
SetSum(rows) ==
    IF rows = {}
    THEN 0
    ELSE LET r == CHOOSE x \in rows : TRUE
         IN  r.profit_amount + SetSum(rows \ { r })

\* C1: every run that inserts a distribution row for a plan created at
\* instant T executes at an instant >= T + 24 hours.
C1_NoDistributionBefore24h ==
    [][ \A d \in NewDistributions :
            now >= PlanOf(d).created_at + TicksPerDay ]_vars

\* C2: after any sequence of runs of distributeInvestmentProfits, the table
\* profit_distributions holds at most one row for each (plan_id,
\* distribution_date).
C2_OneRowPerPlanAndDay ==
    \A i \in DOMAIN profit_distributions : \A j \in DOMAIN profit_distributions :
        ( /\ profit_distributions[i].plan_id = profit_distributions[j].plan_id
          /\ profit_distributions[i].distribution_date
                = profit_distributions[j].distribution_date )
        => i = j

\* a run has just found nothing to queue on a day for which two plans hold
\* their row
C2_Witness ==
    /\ response.op = "distribute"
    /\ response.result = "nothing"
    /\ \E d \in Rows(profit_distributions), e \in Rows(profit_distributions) :
          /\ d.plan_id # e.plan_id
          /\ d.distribution_date = DateOf(now)
          /\ e.distribution_date = DateOf(now)

\* C3: a run of distributeInvestmentProfits on a UTC day on which an earlier
\* run has already run to completion inserts no profit_distributions row,
\* leaves every main_wallet_balance and every total_profit_earned unchanged
\* and inserts no profit transaction.
C3_SecondRunIdempotent ==
    [][ ( /\ response'.op = "distribute"
          /\ finished_on = DateOf(now) )
        => /\ profit_distributions' = profit_distributions
           /\ \A u \in DOMAIN profiles :
                 profiles'[u].main_wallet_balance = profiles[u].main_wallet_balance
           /\ \A i \in DOMAIN investment_plans :
                 investment_plans'[i].total_profit_earned
                    = investment_plans[i].total_profit_earned
           /\ transactions' = transactions ]_vars

\* the second run of a day has just returned: it inserted nothing, and the
\* day's row comes from an earlier run of the day, which credited the wallet
C3_Witness ==
    /\ response.op = "distribute"
    /\ response.result = "nothing"
    /\ finished_on = DateOf(now)
    /\ \E d \in Rows(profit_distributions) :
          /\ d.distribution_date = DateOf(now)
          /\ profiles[d.user_id].main_wallet_balance = d.profit_amount

\* C4: the profit of each plan a run distributes to is investment_amount *
\* daily_percentage / 100 (1000.00 at 3 % gives 30.00); when no database
\* write of the run fails, that amount is added exactly once to the owner's
\* main_wallet_balance and to the plan's total_profit_earned.
C4_ProfitCreditedOnce ==
    [][ ( /\ response'.op = "distribute"
          /\ response'.result = "completed" )
        => /\ \A d \in NewDistributions :
                 /\ d.profit_amount * 100
                       = PlanOf(d).investment_amount * PlanOf(d).daily_percentage
                 /\ ( PlanOf(d).investment_amount = 100000
                      /\ PlanOf(d).daily_percentage = 3 ) => d.profit_amount = 3000
                 /\ \A e \in NewDistributions : e.plan_id = d.plan_id => e = d
           /\ ~ response'.failed =>
                 /\ \A u \in DOMAIN profiles :
                       profiles'[u].main_wallet_balance
                          = profiles[u].main_wallet_balance
                            + SetSum({ d \in NewDistributions : d.user_id = u })
                 /\ \A i \in DOMAIN investment_plans :
                       investment_plans'[i].total_profit_earned
                          = investment_plans[i].total_profit_earned
                            + SetSum({ d \in NewDistributions :
                                         d.plan_id = investment_plans[i].id }) ]_vars

\* a run without a failed write has credited 30.00 for a plan of 1000.00 to
\* a user who owns two plans
C4_Witness ==
    /\ response.op = "distribute"
    /\ response.result = "completed"
    /\ ~ response.failed
    /\ \E d \in Rows(profit_distributions) :
          /\ d.distribution_date = DateOf(now)
          /\ d.profit_amount = 3000
          /\ PlanOf(d).total_profit_earned >= 3000
          /\ profiles[d.user_id].main_wallet_balance >= 3000
          /\ \E e \in Rows(profit_distributions) :
                /\ e.plan_id # d.plan_id
                /\ e.user_id = d.user_id
                /\ e.distribution_date = d.distribution_date

\* the profit transactions of user u that a step appends
NewProfits(u) ==
    { transactions'[i] : i \in { j \in DOMAIN transactions' :
                                   /\ j \notin DOMAIN transactions
                                   /\ transactions'[j].transaction_type = "profit"
                                   /\ transactions'[j].user_id = u } }

\* the users with a plan queued by the run that starts in this state
QueuedUsers ==
    { DuePlans[i].user_id : i \in DOMAIN DuePlans }

\* the entries of userUpdates for user u that the wallet loop visits
Visits(u) ==
    LET keys == userUpdateKeys([ i \in DOMAIN DuePlans |-> [ user_id |-> DuePlans[i].user_id ] ],
                               << >>)
    IN  Cardinality({ i \in DOMAIN keys : keys[i] = u })

\* the sum of profit_amount over the plans of u that the step queued
QueuedProfit(u) ==
    SetSum({ d \in NewDistributions : d.user_id = u })

\* C17 as stated: within one run of distributeInvestmentProfits every user
\* who owns at least one queued plan receives exactly one
\* main_wallet_balance write and exactly one profit transaction, both of the
\* sum of profit_amount over that user's plans queued in the run.
C17_OneWriteAndOneTransaction ==
    [][ ( /\ response'.op = "distribute"
          /\ response'.result = "completed" )
        => \A u \in QueuedUsers :
              /\ Visits(u) = 1
              /\ profiles'[u].main_wallet_balance
                    = profiles[u].main_wallet_balance + QueuedProfit(u)
              /\ Cardinality(NewProfits(u)) = 1
              /\ \A t \in NewProfits(u) :
                    t.amount = QueuedProfit(u) /\ t.net_amount = QueuedProfit(u) ]_vars

\* C17, amended: within one run every user who owns at least one queued
\* plan is visited once by the wallet loop and receives at most one
\* main_wallet_balance write and at most one profit transaction, both of the
\* sum of profit_amount over that user's queued plans; a profit transaction
\* is only inserted after the wallet write; when no write of the run fails
\* the user receives exactly one of each; no other user's wallet changes.
C17_AtMostOneWriteAndTransaction ==
    [][ ( /\ response'.op = "distribute"
          /\ response'.result = "completed" )
        => /\ \A u \in QueuedUsers :
                 /\ Visits(u) = 1
                 /\ \/ profiles'[u].main_wallet_balance = profiles[u].main_wallet_balance
                    \/ profiles'[u].main_wallet_balance
                          = profiles[u].main_wallet_balance + QueuedProfit(u)
                 /\ Cardinality(NewProfits(u)) <= 1
                 /\ \A t \in NewProfits(u) :
                       /\ t.amount = QueuedProfit(u)
                       /\ t.net_amount = QueuedProfit(u)
                       /\ profiles'[u].main_wallet_balance
                             = profiles[u].main_wallet_balance + QueuedProfit(u)
                 /\ ~ response'.failed =>
                       /\ profiles'[u].main_wallet_balance
                             = profiles[u].main_wallet_balance + QueuedProfit(u)
                       /\ Cardinality(NewProfits(u)) = 1
           /\ \A u \in (DOMAIN profiles) \ QueuedUsers :
                 /\ profiles'[u].main_wallet_balance = profiles[u].main_wallet_balance
                 /\ NewProfits(u) = {} ]_vars

\* a run without a failed write has queued two plans of one user on day 1:
\* the user holds one profit transaction of the two profits together, which
\* is the balance of the wallet
C17_Witness ==
    /\ response.op = "distribute"
    /\ response.result = "completed"
    /\ ~ response.failed
    /\ DateOf(now) = 1
    /\ \E d \in Rows(profit_distributions), e \in Rows(profit_distributions) :
          /\ d.plan_id # e.plan_id
          /\ d.user_id = e.user_id
          /\ d.distribution_date = 1 /\ e.distribution_date = 1
          /\ profiles[d.user_id].main_wallet_balance = d.profit_amount + e.profit_amount
          /\ Cardinality({ t \in Rows(transactions) :
                             /\ t.transaction_type = "profit"
                             /\ t.user_id = d.user_id }) = 1
          /\ \E t \in Rows(transactions) :
                /\ t.transaction_type = "profit"
                /\ t.user_id = d.user_id
                /\ t.amount = d.profit_amount + e.profit_amount

\* what the distribution rows of user u promise and the wallet does not hold
Shortfall(u) ==
    SetSum({ d \in Rows(profit_distributions) : d.user_id = u })
        - profiles[u].main_wallet_balance

ShortfallAfter(u) ==
    SetSum({ d \in Rows(profit_distributions') : d.user_id = u })
        - profiles'[u].main_wallet_balance

\* every queued user holds the profit in the wallet and as a transaction, and
\* every queued plan in its total
FullyApplied ==
    /\ \A u \in QueuedUsers :
          /\ profiles'[u].main_wallet_balance
                = profiles[u].main_wallet_balance + QueuedProfit(u)
          /\ Cardinality(NewProfits(u)) = 1
    /\ \A i \in DOMAIN investment_plans :
          investment_plans'[i].total_profit_earned
             = investment_plans[i].total_profit_earned
               + SetSum({ d \in NewDistributions : d.plan_id = investment_plans[i].id })

\* C22: the writes of a distribution are not atomic and nothing repairs a
\* distribution that was left partially applied: a run never queues a plan
\* that holds a row for today, and the profit of a row whose wallet update
\* did not happen is never credited by a later run, on that day or after
\* (what the rows of a user promise beyond the wallet never decreases); a run
\* in which a write after the insert of the rows failed has inserted the
\* rows and is not fully applied.
C22_PartialDistributionStays ==
    [][ /\ \A d \in NewDistributions :
              \A e \in Rows(profit_distributions) :
                  ~ ( e.plan_id = d.plan_id /\ e.distribution_date = d.distribution_date )
        /\ \A u \in DOMAIN profiles :
              /\ Shortfall(u) >= 0
              /\ ShortfallAfter(u) >= Shortfall(u)
        /\ ( /\ response'.op = "distribute"
             /\ response'.result = "completed"
             /\ response'.failed )
           => /\ NewDistributions # {}
              /\ ~ FullyApplied ]_vars

\* the wallet update of a run failed after the day's row was inserted; a
\* later run of the same day found nothing to do and the owner's wallet is
\* still without that day's profit
C22_Witness ==
    /\ response.op = "distribute"
    /\ response.result = "nothing"
    /\ faults > 0
    /\ \E d \in Rows(profit_distributions) :
          /\ d.distribution_date = DateOf(now)
          /\ profiles[d.user_id].main_wallet_balance = 0
          /\ Shortfall(d.user_id) = d.profit_amount

(***************************************************************************)
(* The distribution job for plans created the day before the clock starts: *)
(* their first distribution date is day 0, and a day can pass without a run *)
(***************************************************************************)
InitGap ==
    /\ now = 0
    /\ \E n \in 1..MaxPlans :
         \E owner \in [ 1..n -> { "u1", "u2" } ],
            amount \in [ 1..n -> PlanAmounts ],
            created \in [ 1..n -> (0 - TicksPerDay)..(TicksPerDay - 1) ] :
            /\ owner[1] = "u1"
            /\ \A i \in 1..n : \A j \in 1..n : i <= j => created[i] <= created[j]
            /\ \A i \in 1..n : created[i] <= 0
            /\ investment_plans =
                  [ i \in 1..n |->
                      [ id |-> i, user_id |-> owner[i], plan_type |-> "A",
                        investment_amount |-> amount[i],
                        daily_percentage |-> dailyPercentage,
                        total_profit_earned |-> 0, is_active |-> TRUE,
                        created_at |-> created[i] ] ]
            /\ transactions =
                  [ i \in 1..n |->
                      [ TxRow(owner[i], "investment", amount[i], amount[i],
                              "completed", NoCode) EXCEPT !.id = i ] ]
            /\ tx_serial = n
            /\ profiles = InvestorProfiles(investment_plans)
    /\ profile = [ u \in { "u1", "u2" } |-> NoProfile ]
    /\ profit_distributions = << >>
    /\ referral_commissions = << >>
    /\ withdrawal_requests = << >>
    /\ deposit_requests = << >>
    /\ finished_on = -1
    /\ calls = << >>
    /\ faults = 0
    /\ response = Resp("init", "ok", FALSE)

\* a run in which the insert of the rows may fail
GapDistribute ==
    \E distributionError \in IF DuePlans = << >> THEN { FALSE } ELSE BOOLEAN :
        distributeInvestmentProfits(distributionError, {}, {}, {})

NextGap ==
    \/ Tick
    \/ GapDistribute

SpecGap ==
    InitGap /\ [][NextGap]_vars

RowsFor(plan, day) ==
    { i \in DOMAIN profit_distributions :
        /\ profit_distributions[i].plan_id = plan.id
        /\ profit_distributions[i].distribution_date = day }

\* C25: for every active plan and every UTC day D on or after the plan's
\* first distribution date (creation day + 1) on which
\* distributeInvestmentProfits runs to completion without a database error,
\* exactly one profit_distributions row (plan_id, D) exists after the run,
\* however many earlier days had no run.
C25_OneRowOnEveryRunDay ==
    [][ ( /\ response'.op = "distribute"
          /\ ~ response'.failed )
        => \A i \in DOMAIN investment_plans :
              LET plan == investment_plans[i]
                  D == DateOf(now)
              IN  ( plan.is_active /\ D >= DateOf(plan.created_at) + 1 )
                  => Cardinality({ j \in DOMAIN profit_distributions' :
                                     /\ profit_distributions'[j].plan_id = plan.id
                                     /\ profit_distributions'[j].distribution_date = D }) = 1
      ]_vars

\* a run of day 1 has given its row to a plan that was due from day 0 on
\* and holds no row of day 0, no run having distributed on that day
C25_Witness ==
    /\ response.op = "distribute"
    /\ response.result = "completed"
    /\ ~ response.failed
    /\ DateOf(now) = 1
    /\ \E i \in DOMAIN investment_plans :
          /\ DateOf(investment_plans[i].created_at) + 1 = 0
          /\ RowsFor(investment_plans[i], 0) = {}
          /\ Cardinality(RowsFor(investment_plans[i], 1)) = 1

(***************************************************************************)
(* ReferralService.processReferralCommissions on its own (SpecRef)         *)
(***************************************************************************)
\* a sponsor chain of eight profiles: u1 has no sponsor, each later profile
\* is sponsored by the one before, so that u8 has seven ancestors
ChainUsers ==
    << "u1", "u2", "u3", "u4", "u5", "u6", "u7", "u8" >>

ChainCodes ==
    << "c1", "c2", "c3", "c4", "c5", "c6", "c7", "c8" >>

ChainProfiles ==
    [ u \in Rows(ChainUsers) |->
        LET k == CHOOSE i \in DOMAIN ChainUsers : ChainUsers[i] = u
        IN  ProfileRow(ChainCodes[k], IF k = 1 THEN NoCode ELSE ChainCodes[k - 1],
                       0, 0, FALSE) ]

InitRef ==
    /\ now = 0
    /\ profiles = ChainProfiles
    /\ profile = [ u \in DOMAIN ChainProfiles |-> NoProfile ]
    /\ EmptyTables

\* transaction amounts: 100.00 and 200.00
ReferralAmounts ==
    { 10000, 20000 }

\* one call of referralService.processReferralCommissions
ProcessCommissions(userId, amount, fault) ==
    LET done == processReferralCommissions(Db, userId, amount, fault)
    IN  /\ response.op = "processReferralCommissions" => response.call < MaxCalls
        /\ fault.level <= Len(getReferralChain(profiles, userId))
        /\ Fail(IF fault.level > 0 THEN 1 ELSE 0)
        /\ profiles' = done.db.profiles
        /\ transactions' = done.db.transactions
        /\ referral_commissions' = done.db.referral_commissions
        /\ tx_serial' = done.db.tx_serial
        /\ response' = [ op |-> "processReferralCommissions",
                         result |-> IF done.threw THEN "threw" ELSE "ok",
                         failed |-> done.threw,
                         userId |-> userId, amount |-> amount,
                         call |-> IF response.op = "processReferralCommissions"
                                  THEN response.call + 1 ELSE 1 ]
        /\ UNCHANGED << now, investment_plans, profit_distributions, withdrawal_requests,
                        deposit_requests, profile, finished_on, calls >>

ProcessStep ==
    \E userId \in DOMAIN profiles, amount \in ReferralAmounts, fault \in Faults :
        ProcessCommissions(userId, amount, fault)

NextRef ==
    ProcessStep

SpecRef ==
    InitRef /\ [][NextRef]_vars

\* the profile whose referral_code is the sponsor_id of u, if there is one
SponsorOf(u) ==
    { s \in DOMAIN profiles :
        /\ profiles[u].sponsor_id # NoCode
        /\ profiles[s].referral_code = profiles[u].sponsor_id }

\* the ancestors of u at level L (level 1 being the direct sponsor)
RECURSIVE AncestorAt(_, _)
AncestorAt(u, L) ==
    IF L = 0
    THEN { u }
    ELSE UNION { SponsorOf(a) : a \in AncestorAt(u, L - 1) }

\* the rates of the claim, in tenths of a percent: 10, 5, 3, 2, 1, 0.5
ClaimedRate ==
    << 100, 50, 30, 20, 10, 5 >>

NewCommissions ==
    { referral_commissions'[i] :
        i \in (DOMAIN referral_commissions') \ (DOMAIN referral_commissions) }

RECURSIVE CommissionSum(_)
CommissionSum(rows) ==
    IF rows = {}
    THEN 0
    ELSE LET r == CHOOSE x \in rows : TRUE
         IN  r.commission_amount + CommissionSum(rows \ { r })

RECURSIVE BonusSum(_)
BonusSum(rows) ==
    IF rows = {}
    THEN 0
    ELSE LET r == CHOOSE x \in rows : TRUE
         IN  r.amount + BonusSum(rows \ { r })

BonusesOf(u) ==
    { t \in Rows(transactions) : t.transaction_type = "referral_bonus" /\ t.user_id = u }

CommissionTotal(u) ==
    SeqSum([ i \in DOMAIN referral_commissions |->
               IF referral_commissions[i].referrer_id = u
               THEN referral_commissions[i].commission_amount ELSE 0 ])

directReferrals(referralCode) ==
    { id \in DOMAIN profiles : profiles[id].sponsor_id = referralCode }

\* a count of the direct referrals only
countDirectReferralsOnly(referralCode, depth) ==
    Cardinality(directReferrals(referralCode))

maxDepth ==
    6

\* OptimizedReferralService.countAllReferralsRecursive; the loop over
\* directReferrals is the sum over `rest`
RECURSIVE countAllReferralsRecursive(_, _), countOfEach(_, _)
countOfEach(rest, depth) ==
    IF rest = {}
    THEN 0
    ELSE LET referral == CHOOSE id \in rest : TRUE
         IN  ( IF profiles[referral].referral_code # NoCode
               THEN countAllReferralsRecursive(profiles[referral].referral_code, depth + 1)
               ELSE 0 )
             + countOfEach(rest \ { referral }, depth)

countAllReferralsRecursive(referralCode, depth) ==
    IF depth >= maxDepth
    THEN 0
    ELSE IF directReferrals(referralCode) = {}
         THEN 0
         ELSE Cardinality(directReferrals(referralCode))
              + countOfEach(directReferrals(referralCode), depth)

\* OptimizedReferralService.getReferralStatsOptimized: totalReferrals
totalReferralsRecursive(userId) ==
    countAllReferralsRecursive(profiles[userId].referral_code, 0)

\* ReferralService.getReferralStats: totalReferrals, the distinct referred_id
\* of the user's commission rows
uniqueReferredUsers(userId) ==
    { c.referred_id : c \in { r \in Rows(referral_commissions) : r.referrer_id = userId } }

\* get_referral_stats_optimized: totalReferrals, the profiles sponsored by
\* the user's code
direct_count(user_id) ==
    IF profiles[user_id].referral_code = NoCode
    THEN 0
    ELSE Cardinality({ id \in DOMAIN profiles :
                         profiles[id].sponsor_id = profiles[user_id].referral_code })

\* the ancestors of the users of `members`, up to `levels` levels above them
RECURSIVE Upline(_, _)
Upline(members, levels) ==
    IF levels = 0 \/ members = {}
    THEN {}
    ELSE LET sponsors == UNION { SponsorOf(a) : a \in members }
         IN  sponsors \cup Upline(sponsors, levels - 1)

\* C23: the three definitions of a user's total referral count can
\* disagree.  The recursive count is the number of descendants down to depth
\* 6, the sponsor_id count is the number of those at depth 1, and the
\* commission count is the number of users a commission was recorded for,
\* who are descendants: the first exceeds the second as soon as a referral
\* has a referral, and the third lies anywhere from 0 to the first.
C23_ReferralCountsRelated ==
    LET uplines == UNION { { << a, v >> : a \in Upline({ v }, 6) } : v \in DOMAIN profiles }
    IN  /\ \A u \in DOMAIN profiles :
              /\ totalReferralsRecursive(u) =
                    Cardinality({ p \in uplines : p[1] = u })
              /\ direct_count(u) =
                    Cardinality({ v \in DOMAIN profiles : u \in SponsorOf(v) })
              /\ ( \E v \in DOMAIN profiles : u \in AncestorAt(v, 2) )
                    => direct_count(u) < totalReferralsRecursive(u)
        /\ \A r \in Rows(referral_commissions) :
              << r.referrer_id, r.referred_id >> \in uplines

\* after the commissions of a transaction of u3 were paid, u1 counts six
\* referrals by recursion, one by sponsor_id and one by commission rows, and
\* u2 counts six, one and one as well
C23_Witness ==
    /\ response.op = "processReferralCommissions"
    /\ response.userId = "u3"
    /\ ~ response.failed
    /\ totalReferralsRecursive("u1") = 6
    /\ direct_count("u1") = 1
    /\ Cardinality(uniqueReferredUsers("u1")) = 1
    /\ Cardinality(uniqueReferredUsers("u3")) = 0
    /\ direct_count("u3") # Cardinality(uniqueReferredUsers("u3"))

(***************************************************************************)
(* Deposits: submission, approval through the route and manual approval    *)
(***************************************************************************)
TxHashes ==
    { "h1" }

\* expectedAmount as posted: 100
DepositAmounts ==
    { << "1", "0", "0" >> }

Depositors ==
    { "u3" }

PostStep ==
    \E userId \in Depositors, txHash \in TxHashes,
       expectedAmount \in DepositAmounts, insertError \in BOOLEAN :
        PostDeposit(userId, txHash, expectedAmount, insertError)

PutStep ==
    \E transactionId \in 0..tx_serial, approve \in { "true", "false", "undefined" } :
      \E depositError \in IF approve = "true" THEN BOOLEAN ELSE { FALSE },
         refFault \in IF approve = "true" THEN Faults ELSE { CHOOSE f \in Faults : f.level = 0 } :
        PutDeposit(transactionId, approve, depositError, refFault)

DepositRequestStep ==
    \E user_id \in Depositors, tx_hash \in TxHashes :
        CreateDepositRequest(user_id, 10000, tx_hash)

ManualApproveStep ==
    \E p_request_id \in 1..MaxRequests, sqlError \in BOOLEAN :
        process_manual_deposit_approval("u1", p_request_id, "u1", sqlError)

ManualRejectStep ==
    \E p_request_id \in 1..MaxRequests :
        reject_manual_deposit("u1", p_request_id, "u1")

NextDep ==
    \/ PostStep
    \/ PutStep
    \/ DepositRequestStep
    \/ ManualApproveStep
    \/ ManualRejectStep

SpecDep ==
    Init /\ [][NextDep]_vars

\* C6: after any sequence of deposit submissions and deposit approvals the
\* transactions table holds at most one row for any given reference_id /
\* tx_hash.
C6_OneRowPerTxHash ==
    \A i \in DOMAIN transactions : \A j \in DOMAIN transactions :
        ( /\ transactions[i].reference_id \in TxHashes
          /\ transactions[i].reference_id = transactions[j].reference_id ) => i = j

\* C20: deposited principal goes to the fund wallet and the main wallet is
\* fed only by profits and commissions: a successful
\* process_manual_deposit_approval increases the fund_wallet_balance of the
\* request's user by the net deposit amount (the amount less the 1 % fee)
\* and leaves every main_wallet_balance unchanged.
C20_DepositCreditsFundWallet ==
    [][ ( /\ response'.op = "process_manual_deposit_approval"
          /\ response'.result = "success" )
        => \E r \in Rows(deposit_requests) :
              /\ r.id = response'.request
              /\ r.status = "pending"
              /\ profiles'[r.user_id].fund_wallet_balance
                    = profiles[r.user_id].fund_wallet_balance
                      + (r.amount - r.amount \div 100)
              /\ \A u \in DOMAIN profiles :
                    profiles'[u].main_wallet_balance = profiles[u].main_wallet_balance
      ]_vars

(***************************************************************************)
(* Withdrawals and the admin fund procedures                               *)
(***************************************************************************)
Callers ==
    { "u1", "u2" }

WithdrawalAmounts ==
    { 2000 }

FundAmounts ==
    { 0, 2000 }

WithdrawalRequestStep ==
    \E amount \in WithdrawalAmounts : CreateWithdrawalRequest("u2", amount)

ApproveWithdrawalStep ==
    \E caller \in Callers, p_request_id \in 1..MaxRequests :
        approve_withdrawal_request(caller, p_request_id)

RejectWithdrawalStep ==
    \E caller \in Callers, p_request_id \in 1..MaxRequests :
        reject_withdrawal_request(caller, p_request_id)

AddFundsStep ==
    \E caller \in Callers, p_user_id \in { "u2", "u9" }, p_amount \in FundAmounts :
        admin_add_funds_to_user(caller, p_user_id, p_amount)

DeductFundsStep ==
    \E caller \in Callers, p_user_id \in { "u2", "u9" }, p_amount \in FundAmounts :
        admin_deduct_funds_from_user(caller, p_user_id, p_amount)

NextWd ==
    \/ WithdrawalRequestStep
    \/ ApproveWithdrawalStep
    \/ RejectWithdrawalStep
    \/ AddFundsStep
    \/ DeductFundsStep

SpecWd ==
    Init /\ [][NextWd]_vars

PendingWithdrawal(id) ==
    { r \in Rows(withdrawal_requests) : r.id = id /\ r.status = "pending" }

Raised ==
    { "raise_access_denied", "raise_not_found", "raise_amount", "raise_user_not_found",
      "raise_insufficient" }

\* C7: approve_withdrawal_request and admin_deduct_funds_from_user raise an
\* error whenever the user's main_wallet_balance at the time of the call is
\* less than the requested amount, and then leave the wallet balances, the
\* withdrawal requests and the transactions table unchanged.
C7_InsufficientBalanceRaises ==
    [][ /\ ( /\ response'.op = "approve_withdrawal_request"
             /\ \E r \in PendingWithdrawal(response'.request) :
                    profiles[r.user_id].main_wallet_balance < r.amount )
           => /\ response'.result \in Raised
              /\ profiles' = profiles
              /\ withdrawal_requests' = withdrawal_requests
              /\ transactions' = transactions
        /\ ( /\ response'.op = "admin_deduct_funds_from_user"
             /\ response'.user \in DOMAIN profiles
             /\ profiles[response'.user].main_wallet_balance < response'.amount )
           => /\ response'.result \in Raised
              /\ profiles' = profiles
              /\ withdrawal_requests' = withdrawal_requests
              /\ transactions' = transactions ]_vars

\* an administrator's approval of a pending request was refused because the
\* wallet holds less than the request asks for
C7_Witness ==
    /\ response.op = "approve_withdrawal_request"
    /\ response.result = "raise_insufficient"
    /\ response.caller = "u1"
    /\ \E r \in PendingWithdrawal(response.request) :
           profiles[r.user_id].main_wallet_balance < r.amount

\* C8: reject_withdrawal_request never changes a main_wallet_balance or a
\* fund_wallet_balance, whether it succeeds or raises; a successful call
\* changes nothing but the status of the request, to rejected, and the
\* status of the matching withdrawal transaction, to failed.
C8_RejectFrame ==
    [][ response'.op = "reject_withdrawal_request" =>
          /\ \A u \in DOMAIN profiles :
                /\ profiles'[u].main_wallet_balance = profiles[u].main_wallet_balance
                /\ profiles'[u].fund_wallet_balance = profiles[u].fund_wallet_balance
          /\ profiles' = profiles
          /\ UNCHANGED << investment_plans, profit_distributions, referral_commissions,
                          deposit_requests >>
          /\ IF response'.result = "success"
             THEN /\ PendingWithdrawal(response'.request) # {}
                  /\ Len(withdrawal_requests') = Len(withdrawal_requests)
                  /\ \A i \in DOMAIN withdrawal_requests :
                        withdrawal_requests'[i] =
                            IF withdrawal_requests[i].id = response'.request
                            THEN [ withdrawal_requests[i] EXCEPT !.status = "rejected" ]
                            ELSE withdrawal_requests[i]
                  /\ Len(transactions') = Len(transactions)
                  /\ \A i \in DOMAIN transactions :
                        transactions'[i] =
                            IF /\ transactions[i].transaction_type = "withdrawal"
                               /\ transactions[i].reference_id = RequestRef(response'.request)
                            THEN [ transactions[i] EXCEPT !.status = "failed" ]
                            ELSE transactions[i]
             ELSE /\ withdrawal_requests' = withdrawal_requests
                  /\ transactions' = transactions ]_vars

\* a request was rejected while another one is still pending and its owner
\* holds a balance
C8_Witness ==
    /\ response.op = "reject_withdrawal_request"
    /\ response.result = "success"
    /\ \E r \in Rows(withdrawal_requests) : r.status = "pending"
    /\ \E r \in Rows(withdrawal_requests) :
          /\ r.id = response.request
          /\ r.status = "rejected"
          /\ profiles[r.user_id].main_wallet_balance > 0
    /\ \E t \in Rows(transactions) :
          /\ t.reference_id = RequestRef(response.request)
          /\ t.status = "failed"

Processed(id) ==
    { r \in Rows(withdrawal_requests) :
        r.id = id /\ r.status \in { "approved", "rejected" } }

WithdrawalProcedures ==
    { "approve_withdrawal_request", "reject_withdrawal_request" }

\* C18: a withdrawal request is processed at most once: the status of a
\* request only changes from pending, by a successful approve or reject call
\* on that request; an approval deducts the amount once as it moves the
\* request to approved; every approve or reject call on a request that is
\* already approved or rejected raises and leaves the requests, the wallets
\* and the transactions unchanged.
C18_ProcessedAtMostOnce ==
    [][ /\ ( /\ response'.op \in WithdrawalProcedures
             /\ Processed(response'.request) # {} )
           => /\ response'.result \in Raised
              /\ withdrawal_requests' = withdrawal_requests
              /\ profiles' = profiles
              /\ transactions' = transactions
        /\ \A i \in DOMAIN withdrawal_requests :
              withdrawal_requests'[i].status # withdrawal_requests[i].status
              => /\ withdrawal_requests[i].status = "pending"
                 /\ response'.op \in WithdrawalProcedures
                 /\ response'.result = "success"
                 /\ response'.request = withdrawal_requests[i].id
                 /\ withdrawal_requests'[i].status =
                       IF response'.op = "approve_withdrawal_request"
                       THEN "approved" ELSE "rejected"
        /\ ( /\ response'.op = "approve_withdrawal_request"
             /\ \E u \in DOMAIN profiles : profiles'[u] # profiles[u] )
           => \E i \in DOMAIN withdrawal_requests :
                 LET r == withdrawal_requests[i]
                 IN  /\ r.id = response'.request
                     /\ r.status = "pending"
                     /\ withdrawal_requests'[i].status = "approved"
                     /\ profiles' = [ profiles EXCEPT
                                        ![r.user_id].main_wallet_balance = @ - r.amount ]
      ]_vars

\* an administrator's second approval of an approved request has raised,
\* and the wallet of the owner, who had 40.00, still holds the 20.00 that
\* the first approval left
C18_Witness ==
    /\ response.op = "approve_withdrawal_request"
    /\ response.caller = "u1"
    /\ response.result = "raise_not_found"
    /\ \E r \in Processed(response.request) :
          /\ r.status = "approved"
          /\ r.amount = 2000
          /\ profiles[r.user_id].main_wallet_balance = 2000
          /\ \E t \in Rows(transactions) :
                /\ t.reference_id = RequestRef(r.id)
                /\ t.status = "completed"

(***************************************************************************)
(* Referral failures inside deposit approval and inside handleInvest       *)
(***************************************************************************)
Investors ==
    { "u2" }

InvestStep ==
    \E u \in Investors, a \in InvestAmounts, fail \in InvestFails, f \in Faults :
        handleInvest(u, a, fail, f)

FetchStep ==
    \E u \in Investors : fetchProfile(u)

NextPrimary ==
    \/ FetchStep
    \/ InvestStep
    \/ PostStep
    \/ PutStep

SpecPrimary ==
    Init /\ [][NextPrimary]_vars

\* the plan the step has inserted
NewPlan ==
    investment_plans'[Len(investment_plans')]

\* C10: a failure of referral commission processing never blocks or rolls
\* back the primary transaction: when processReferralCommissions throws
\* during deposit approval the deposit transaction is still set to completed
\* and the response is success; when it throws during handleInvest the
\* created plan, the fund wallet deduction and the investment transaction
\* remain and the investment reports success.
C10_ReferralFailureSwallowed ==
    [][ /\ ( response'.op = "PUT deposit approve" /\ response'.failed )
           => /\ response'.result = "success"
              /\ \E i \in DOMAIN transactions :
                    /\ transactions[i].transaction_type = "deposit"
                    /\ transactions[i].status = "pending"
                    /\ transactions'[i].id = transactions[i].id
                    /\ transactions'[i].status = "completed"
        /\ ( response'.op = "handleInvest" /\ response'.failed )
           => /\ response'.result = "success"
              /\ Len(investment_plans') = Len(investment_plans) + 1
              /\ profiles'[NewPlan.user_id].fund_wallet_balance =
                    profile[NewPlan.user_id] - NewPlan.investment_amount
              /\ \E t \in Rows(transactions') :
                    /\ t.id > tx_serial
                    /\ t.transaction_type = "investment"
                    /\ t.user_id = NewPlan.user_id
                    /\ t.amount = NewPlan.investment_amount
                    /\ t.status = "completed" ]_vars

\* a deposit was approved although paying its referral commissions threw
C10_Witness ==
    /\ response.op = "PUT deposit approve"
    /\ response.failed
    /\ response.result = "success"
    /\ \E t \in Rows(transactions) :
          t.transaction_type = "deposit" /\ t.status = "completed"

(***************************************************************************)
(* The ledger: every operation that writes transactions.status             *)
(***************************************************************************)
\* the ledger is followed from the end of day 0, u2 having fetched the
\* profile and invested 1000.00 at the start of that day
InvestedAmount ==
    100000

InitLedger ==
    LET deducted == [ profiles |-> [ InitProfiles EXCEPT
                                       !["u2"].fund_wallet_balance = @ - InvestedAmount ],
                      transactions |-> << >>,
                      referral_commissions |-> << >>,
                      tx_serial |-> 0 ]
        recorded == InsertTransaction(deducted,
                        TxRow("u2", "investment", InvestedAmount, InvestedAmount,
                              "completed", NoCode))
        referral == processReferralCommissions(recorded, "u2", InvestedAmount,
                                               [ level |-> 0, call |-> "none" ])
    IN  /\ now = TicksPerDay - 1
        /\ profiles = referral.db.profiles
        /\ profile = [ u \in DOMAIN InitProfiles |->
                         IF u = "u2" THEN InitProfiles[u].fund_wallet_balance
                         ELSE NoProfile ]
        /\ investment_plans =
              << [ id |-> 1, user_id |-> "u2", plan_type |-> "A",
                   investment_amount |-> InvestedAmount,
                   daily_percentage |-> dailyPercentage,
                   total_profit_earned |-> 0, is_active |-> TRUE, created_at |-> 0 ] >>
        /\ transactions = referral.db.transactions
        /\ referral_commissions = referral.db.referral_commissions
        /\ tx_serial = referral.db.tx_serial
        /\ profit_distributions = << >>
        /\ withdrawal_requests = << >>
        /\ deposit_requests = << >>
        /\ finished_on = -1
        /\ calls = << >>
        /\ faults = 0
        /\ response = Resp("handleInvest", "success", FALSE)

NoFault ==
    [ level |-> 0, call |-> "none" ]

\* the operations of the ledger, called by the administrator u1 and with
\* every database write succeeding
LedgerDistribute ==
    distributeInvestmentProfits(FALSE, {}, {}, {})

LedgerWithdrawalDecision ==
    \E p_request_id \in 1..MaxRequests :
        \/ approve_withdrawal_request("u1", p_request_id)
        \/ reject_withdrawal_request("u1", p_request_id)

LedgerDeposit ==
    \E txHash \in TxHashes : PostDeposit("u3", txHash, << "1", "0", "0" >>, FALSE)

LedgerDepositDecision ==
    \E transactionId \in 1..tx_serial, approve \in { "true", "false" } :
        PutDeposit(transactionId, approve, FALSE, NoFault)

NextLedger ==
    \/ Tick
    \/ LedgerDistribute
    \/ ResetScript
    \/ WithdrawalRequestStep
    \/ LedgerWithdrawalDecision
    \/ LedgerDeposit
    \/ LedgerDepositDecision

SpecLedger ==
    InitLedger /\ [][NextLedger]_vars

\* the rows of transactions' that continue the row t of transactions
Kept(t) ==
    { n \in Rows(transactions') : n.id = t.id }

Terminal ==
    { "completed", "failed", "cancelled" }

Sign(transaction_type) ==
    CASE transaction_type \in { "deposit", "profit", "referral_bonus" } -> 1
      [] transaction_type \in { "withdrawal", "investment", "ton_purchase" } -> -1
      [] OTHER -> 0

\* the signed sum of net_amount over the completed transactions of user u
\* among the first n rows; a row without net_amount counts as 0
RECURSIVE SignedSum(_, _)
SignedSum(u, n) ==
    IF n = 0
    THEN 0
    ELSE SignedSum(u, n - 1) +
         ( IF /\ transactions[n].user_id = u
              /\ transactions[n].status = "completed"
              /\ transactions[n].net_amount # NoAmount
           THEN Sign(transactions[n].transaction_type) * transactions[n].net_amount
           ELSE 0 )

\* the change of the two wallets of user u since the profile was created
WalletDelta(u) ==
    ( profiles[u].main_wallet_balance + profiles[u].fund_wallet_balance )
    - ( InitProfiles[u].main_wallet_balance + InitProfiles[u].fund_wallet_balance )

\* C13: in every state reachable through the balance-affecting operations,
\* for each user the net change of the wallet balances since profile
\* creation equals the signed sum of net_amount over that user's completed
\* transactions.
C13_WalletsReconcile ==
    \A u \in DOMAIN profiles : WalletDelta(u) = SignedSum(u, Len(transactions))

(***************************************************************************)
(* distributeInvestmentProfits, invocations overlapping in time.  Each     *)
(* invocation is followed await by await: the reads that build the queue,  *)
(* the bulk insert, then for every user the read of the balance and the    *)
(* write of the balance with the profit transaction, then the plan totals. *)
(***************************************************************************)
\* lines 275-389: the reads of one invocation, up to the queue it builds
BeginDistribution ==
    LET due == DuePlans
        profitDistributions ==
            [ i \in DOMAIN due |->
                [ plan_id |-> due[i].id, user_id |-> due[i].user_id,
                  profit_amount |-> profitAmount(due[i]),
                  distribution_date |-> DateOf(now) ] ]
    IN  /\ Len(calls) < MaxJobs
        /\ IF due = << >>
           THEN /\ response' = Resp("distribute", "nothing", FALSE)
                /\ UNCHANGED calls
           ELSE /\ response' = Resp("distribute", "queued", FALSE)
                /\ calls' = Append(calls,
                                   [ pc |-> "insert", queue |-> profitDistributions,
                                     keys |-> userUpdateKeys(profitDistributions, << >>),
                                     currentProfile |-> 0 ])
        /\ UNCHANGED << now, profiles, investment_plans, profit_distributions, transactions,
                        referral_commissions, withdrawal_requests, deposit_requests,
                        tx_serial, profile, finished_on, faults >>

\* lines 391-399: the bulk insert
InsertDistributions(c) ==
    /\ calls[c].pc = "insert"
    /\ profit_distributions' = profit_distributions \o calls[c].queue
    /\ calls' = [ calls EXCEPT ![c].pc = "fetch" ]
    /\ response' = Resp("distribute", "inserted", FALSE)
    /\ UNCHANGED << now, profiles, investment_plans, transactions, referral_commissions,
                    withdrawal_requests, deposit_requests, tx_serial, profile,
                    finished_on, faults >>

\* lines 403-408: select main_wallet_balance of the next user
FetchWallet(c) ==
    /\ calls[c].pc = "fetch"
    /\ calls' = [ calls EXCEPT
                    ![c].pc = "update",
                    ![c].currentProfile = profiles[Head(calls[c].keys)].main_wallet_balance ]
    /\ response' = Resp("distribute", "fetched", FALSE)
    /\ UNCHANGED << now, profiles, investment_plans, profit_distributions, transactions,
                    referral_commissions, withdrawal_requests, deposit_requests,
                    tx_serial, profile, finished_on, faults >>

\* lines 415-441: write the balance that was read plus the profit, insert
\* the profit transaction, go on to the next user
UpdateWallet(c) ==
    LET userId == Head(calls[c].keys)
        totalProfit == userUpdates(calls[c].queue, userId)
        credited == [ Db EXCEPT !.profiles[userId].main_wallet_balance =
                                   calls[c].currentProfile + totalProfit ]
        recorded == InsertTransaction(credited,
                        TxRow(userId, "profit", totalProfit, totalProfit, "completed",
                              NoCode))
    IN  /\ calls[c].pc = "update"
        /\ tx_serial < MaxTx
        /\ profiles' = recorded.profiles
        /\ transactions' = recorded.transactions
        /\ tx_serial' = recorded.tx_serial
        /\ calls' = [ calls EXCEPT
                        ![c].keys = Tail(@),
                        ![c].pc = IF Tail(calls[c].keys) = << >> THEN "plans" ELSE "fetch" ]
        /\ response' = Resp("distribute", "credited", FALSE)
        /\ UNCHANGED << now, investment_plans, profit_distributions, referral_commissions,
                        withdrawal_requests, deposit_requests, profile, finished_on,
                        faults >>

\* lines 447-471: the plan totals
UpdatePlans(c) ==
    /\ calls[c].pc = "plans"
    /\ investment_plans' = updatePlanTotals(investment_plans, calls[c].queue, {})
    /\ calls' = [ calls EXCEPT ![c].pc = "done" ]
    /\ finished_on' = DateOf(now)
    /\ response' = Resp("distribute", "completed", FALSE)
    /\ UNCHANGED << now, profiles, profit_distributions, transactions,
                    referral_commissions, withdrawal_requests, deposit_requests,
                    tx_serial, profile, faults >>

JobStep ==
    \E c \in DOMAIN calls :
        \/ InsertDistributions(c)
        \/ FetchWallet(c)
        \/ UpdateWallet(c)
        \/ UpdatePlans(c)

NextRace ==
    \/ Tick
    \/ BeginDistribution
    \/ JobStep

SpecRace ==
    InitLedger /\ [][NextRace]_vars

\* C14: a plan receives at most one profit distribution per calendar day
\* even when two invocations of distributeInvestmentProfits overlap: no
\* interleaving inserts two profit_distributions rows for the same
\* (plan_id, date) or credits the owner's main wallet twice for that day.
C14_OneDistributionPerDayConcurrent ==
    /\ \A i \in DOMAIN profit_distributions : \A j \in DOMAIN profit_distributions :
          ( /\ profit_distributions[i].plan_id = profit_distributions[j].plan_id
            /\ profit_distributions[i].distribution_date =
                  profit_distributions[j].distribution_date ) => i = j
    /\ \A u \in DOMAIN profiles :
          Cardinality({ t \in Rows(transactions) :
                          t.user_id = u /\ t.transaction_type = "profit" })
            <= Cardinality({ d.distribution_date : d \in
                               { r \in Rows(profit_distributions) : r.user_id = u } })

(***************************************************************************)
(* ReferralService.payCommission, invocations overlapping in time, each    *)
(* followed await by await                                                 *)
(***************************************************************************)
\* payCommission(referrerId, referredUserId, transactionAmount, rates) is
\* entered: line 114
BeginPay(referrerId, referredUserId, transactionAmount, rates) ==
    /\ Len(calls) < MaxJobs
    /\ calls' = Append(calls,
                       [ pc |-> "select", referrerId |-> referrerId,
                         referredUserId |-> referredUserId,
                         usdtCommission |-> usdtCommission(transactionAmount, rates),
                         level |-> rates.level, referrer |-> 0 ])
    /\ response' = Resp("payCommission", "entered", FALSE)
    /\ UNCHANGED << now, profiles, investment_plans, profit_distributions, transactions,
                    referral_commissions, withdrawal_requests, deposit_requests,
                    tx_serial, profile, finished_on, faults >>

\* lines 116-125: select main_wallet_balance of the referrer
SelectReferrer(c) ==
    /\ calls[c].pc = "select"
    /\ calls' = [ calls EXCEPT
                    ![c].pc = "update",
                    ![c].referrer = profiles[calls[c].referrerId].main_wallet_balance ]
    /\ response' = Resp("payCommission", "selected", FALSE)
    /\ UNCHANGED << now, profiles, investment_plans, profit_distributions, transactions,
                    referral_commissions, withdrawal_requests, deposit_requests,
                    tx_serial, profile, finished_on, faults >>

newUsdtBalanceIncrement(referrer, stored, commission) ==
    stored + commission

\* line 128: the balance that was read plus the commission; `stored` is the
\* balance the table holds when the update is issued
newUsdtBalance(referrer, stored, commission) ==
    referrer + commission

\* lines 130-139
UpdateReferrer(c) ==
    /\ calls[c].pc = "update"
    /\ profiles' = [ profiles EXCEPT
                       ![calls[c].referrerId].main_wallet_balance =
                           newUsdtBalance(calls[c].referrer, @, calls[c].usdtCommission) ]
    /\ calls' = [ calls EXCEPT ![c].pc = "transaction" ]
    /\ response' = Resp("payCommission", "updated", FALSE)
    /\ UNCHANGED << now, investment_plans, profit_distributions, transactions,
                    referral_commissions, withdrawal_requests, deposit_requests,
                    tx_serial, profile, finished_on, faults >>

\* lines 141-150: createCommissionTransaction
CommissionTransaction(c) ==
    LET recorded == InsertTransaction(Db,
                        TxRow(calls[c].referrerId, "referral_bonus", calls[c].usdtCommission,
                              calls[c].usdtCommission, "completed", NoCode))
    IN  /\ calls[c].pc = "transaction"
        /\ tx_serial < MaxTx
        /\ transactions' = recorded.transactions
        /\ tx_serial' = recorded.tx_serial
        /\ calls' = [ calls EXCEPT ![c].pc = "record" ]
        /\ response' = Resp("payCommission", "transaction", FALSE)
        /\ UNCHANGED << now, profiles, investment_plans, profit_distributions,
                        referral_commissions, withdrawal_requests, deposit_requests,
                        profile, finished_on, faults >>

\* lines 152-161: createReferralCommissionRecord
CommissionRecord(c) ==
    /\ calls[c].pc = "record"
    /\ referral_commissions' =
          Append(referral_commissions,
                 [ referrer_id |-> calls[c].referrerId,
                   referred_id |-> calls[c].referredUserId,
                   commission_amount |-> calls[c].usdtCommission,
                   commission_percentage |-> commissionRates[calls[c].level].usdtRate,
                   level |-> calls[c].level ])
    /\ calls' = [ calls EXCEPT ![c].pc = "done" ]
    /\ response' = Resp("payCommission", "done", FALSE)
    /\ UNCHANGED << now, profiles, investment_plans, profit_distributions, transactions,
                    withdrawal_requests, deposit_requests, tx_serial, profile,
                    finished_on, faults >>

\* u1 is paid the level 1 commission of a transaction of u2 and the level 2
\* commission of a transaction of u3
BeginPayStep ==
    \E referred \in { "u2", "u3" }, transactionAmount \in ReferralAmounts :
        BeginPay("u1", referred, transactionAmount,
                 commissionRates[IF referred = "u2" THEN 1 ELSE 2])

PayStep ==
    \E c \in DOMAIN calls :
        \/ SelectReferrer(c)
        \/ UpdateReferrer(c)
        \/ CommissionTransaction(c)
        \/ CommissionRecord(c)

NextPay ==
    \/ BeginPayStep
    \/ PayStep

SpecPay ==
    Init /\ [][NextPay]_vars

\* C15: balance increments are read-then-write, so two concurrent
\* payCommission invocations crediting the same referrer are subject to a
\* lost update: when both have read the same main_wallet_balance, the final
\* balance reflects only one of the two commissions, while both commission
\* records and both referral_bonus transactions are inserted.
C15_LostUpdate ==
    ( /\ Len(calls) = 2
      /\ calls[1].pc = "done" /\ calls[2].pc = "done"
      /\ calls[1].referrerId = calls[2].referrerId
      /\ calls[1].referrer = calls[2].referrer )
    => /\ \E c \in { 1, 2 } :
             profiles[calls[1].referrerId].main_wallet_balance =
                 calls[c].referrer + calls[c].usdtCommission
       /\ profiles[calls[1].referrerId].main_wallet_balance <
              calls[1].referrer + calls[1].usdtCommission + calls[2].usdtCommission
       /\ Len(referral_commissions) = 2
       /\ Cardinality({ t \in Rows(transactions) :
                           /\ t.transaction_type = "referral_bonus"
                           /\ t.user_id = calls[1].referrerId }) = 2

\* two invocations with different commissions have read the same balance
\* and both have finished: the wallet holds the smaller one only
C15_Witness ==
    /\ Len(calls) = 2
    /\ calls[1].pc = "done" /\ calls[2].pc = "done"
    /\ calls[1].referrer = calls[2].referrer
    /\ calls[1].usdtCommission > calls[2].usdtCommission
    /\ profiles["u1"].main_wallet_balance = calls[2].referrer + calls[2].usdtCommission
    /\ Len(referral_commissions) = 2
    /\ Cardinality({ t \in Rows(transactions) : t.transaction_type = "referral_bonus" }) = 2

(***************************************************************************)
(* The upline walks, followed iteration by iteration over profiles tables  *)
(* with cycles, dangling sponsor codes and repeated referral codes         *)
(***************************************************************************)
SponsorCodes ==
    { NoCode, "c1", "c2", "c3", "zz" }

\* three profiles with any sponsor codes; the referral code of u3 may
\* repeat the one of u1
WalkTables ==
    { [ u \in { "u1", "u2", "u3" } |->
          ProfileRow(IF u = "u3" THEN code3 ELSE IF u = "u1" THEN "c1" ELSE "c2",
                     sp[u], 0, 0, FALSE) ] :
        sp \in [ { "u1", "u2", "u3" } -> SponsorCodes ], code3 \in { "c3", "c1" } }

\* "u4" has no profile
WalkStarts ==
    { "u1", "u2", "u3", "u4" }

InitWalk ==
    /\ now = 0
    /\ profiles \in WalkTables
    /\ profile = [ u \in DOMAIN InitProfiles |-> NoProfile ]
    /\ EmptyTables

WalkUnchanged ==
    UNCHANGED << now, profiles, investment_plans, profit_distributions, transactions,
                 referral_commissions, withdrawal_requests, deposit_requests,
                 tx_serial, profile, finished_on, faults >>

\* new Map(allProfiles.map(p => [p.referral_code, p])): of the rows with one
\* code the Map keeps the last one, in a row order the query does not fix
ReferralCodeMaps(profs) ==
    { f \in [ { profs[id].referral_code : id \in DOMAIN profs } -> DOMAIN profs ] :
        \A code \in DOMAIN f : profs[f[code]].referral_code = code }

WalkCall(kind, userId, byCode) ==
    [ kind |-> kind, pc |-> "sponsor", userId |-> userId, currentUserId |-> userId,
      level |-> 1, chain |-> << >>, sponsor_id |-> NoCode, iterations |-> 0,
      profileById |-> profiles, profileByReferralCode |-> byCode ]

\* a walk is started when none is running.
\* part_002 line 63-65; optimizedReferralService.ts lines 184-204
BeginWalk ==
    /\ \A c \in DOMAIN calls : calls[c].pc = "done"
    /\ \E userId \in WalkStarts :
          \/ calls' = << WalkCall("getReferralChain", userId, << >>) >>
          \/ \E byCode \in ReferralCodeMaps(profiles) :
                calls' = << WalkCall("getReferralChainIterative", userId, byCode) >>
    /\ response' = Resp("walk", "entered", FALSE)
    /\ WalkUnchanged

\* getReferralChain, lines 66-76: the loop test and the select of sponsor_id
SelectSponsor(c) ==
    LET call == calls[c]
    IN  /\ call.kind = "getReferralChain"
        /\ call.pc = "sponsor"
        /\ calls' = [ calls EXCEPT ![c] =
              IF call.level > MaxChainLevels
              THEN [ call EXCEPT !.pc = "done" ]
              ELSE IF \/ call.currentUserId \notin DOMAIN profiles
                      \/ profiles[call.currentUserId].sponsor_id = NoCode
                   THEN [ call EXCEPT !.pc = "done", !.iterations = @ + 1 ]
                   ELSE [ call EXCEPT !.pc = "referrer", !.iterations = @ + 1,
                                      !.sponsor_id = profiles[call.currentUserId].sponsor_id ] ]
        /\ response' = Resp("walk", "sponsor", FALSE)
        /\ WalkUnchanged

\* getReferralChain, lines 78-95: the select of the referrer and the push
SelectReferrerOfChain(c) ==
    LET call == calls[c]
        referrer == Single({ id \in DOMAIN profiles :
                               profiles[id].referral_code = call.sponsor_id })
    IN  /\ call.kind = "getReferralChain"
        /\ call.pc = "referrer"
        /\ calls' = [ calls EXCEPT ![c] =
              IF referrer = {}
              THEN [ call EXCEPT !.pc = "done" ]
              ELSE LET rid == CHOOSE id \in referrer : TRUE
                   IN  [ call EXCEPT !.pc = "sponsor",
                                     !.chain = Append(@, [ id |-> rid, level |-> call.level ]),
                                     !.currentUserId = rid,
                                     !.level = @ + 1 ] ]
        /\ response' = Resp("walk", "referrer", FALSE)
        /\ WalkUnchanged

\* getReferralChainIterative, lines 206-219: the loop test and one iteration
\* over the two Maps
IterateMaps(c) ==
    LET call == calls[c]
        byId == call.profileById
        byCode == call.profileByReferralCode
    IN  /\ call.kind = "getReferralChainIterative"
        /\ call.pc = "sponsor"
        /\ calls' = [ calls EXCEPT ![c] =
              IF call.level > MaxChainLevels
              THEN [ call EXCEPT !.pc = "done" ]
              ELSE IF \/ call.currentUserId \notin DOMAIN byId
                      \/ byId[call.currentUserId].sponsor_id = NoCode
                      \/ byId[call.currentUserId].sponsor_id \notin DOMAIN byCode
                   THEN [ call EXCEPT !.pc = "done", !.iterations = @ + 1 ]
                   ELSE LET rid == byCode[byId[call.currentUserId].sponsor_id]
                        IN  [ call EXCEPT !.iterations = @ + 1,
                                          !.chain = Append(@, [ id |-> rid,
                                                                level |-> call.level ]),
                                          !.currentUserId = rid,
                                          !.level = @ + 1 ] ]
        /\ response' = Resp("walk", "iteration", FALSE)
        /\ WalkUnchanged

WalkStep ==
    \E c \in DOMAIN calls :
        \/ SelectSponsor(c)
        \/ SelectReferrerOfChain(c)
        \/ IterateMaps(c)

NextWalk ==
    \/ BeginWalk
    \/ WalkStep

SpecWalk ==
    InitWalk /\ [][NextWalk]_vars

\* each await of a walk returns: a walk that can take a step takes it
SpecWalkFair ==
    SpecWalk /\ WF_vars(WalkStep)

\* the profiles whose referral code is the sponsor code of u
SponsorsOf(u) ==
    IF u \in DOMAIN profiles
    THEN { id \in DOMAIN profiles :
             /\ profiles[u].sponsor_id # NoCode
             /\ profiles[id].referral_code = profiles[u].sponsor_id }
    ELSE {}

\* .single() resolves a sponsor code that exactly one profile holds, the Map
\* one that at least one profile holds
Resolvable(kind, u) ==
    IF kind = "getReferralChain"
    THEN Cardinality(SponsorsOf(u)) = 1
    ELSE SponsorsOf(u) # {}

WalkBounded(call) ==
    /\ call.iterations <= 6
    /\ Len(call.chain) <= 6
    /\ \A i \in DOMAIN call.chain :
          /\ call.chain[i].level = i
          /\ call.chain[i].id \in
                SponsorsOf(IF i = 1 THEN call.userId ELSE call.chain[i - 1].id)
    /\ ( call.pc = "done" /\ Len(call.chain) < 6 )
          => ~ Resolvable(call.kind, IF call.chain = << >> THEN call.userId
                                     ELSE call.chain[Len(call.chain)].id)

C16_WitnessDangling ==
    /\ calls # << >>
    /\ calls[1].pc = "done"
    /\ Len(calls[1].chain) = 1
    /\ profiles[calls[1].chain[1].id].sponsor_id = "zz"

(***************************************************************************)
(* get_referral_chain_recursive, as getReferralChainOptimized calls it      *)
(***************************************************************************)
\* DEFAULT 4 of the SQL function
max_levels_default ==
    4

\* max_levels: 6 of the rpc call
max_levels ==
    6

\* the ids of the rows of the recursive query with current_level = level
RECURSIVE referral_chain(_, _, _)
referral_chain(profs, start_user_id, level) ==
    IF level = 0
    THEN { id \in DOMAIN profs : id = start_user_id }
    ELSE { referrer \in DOMAIN profs :
             \E rc \in referral_chain(profs, start_user_id, level - 1) :
                 /\ profs[rc].sponsor_id # NoCode
                 /\ profs[referrer].referral_code # NoCode
                 /\ profs[referrer].referral_code = profs[rc].sponsor_id }

\* WHERE rc.current_level > 0, every step having passed current_level <
\* max_levels
get_referral_chain_recursive(profs, start_user_id) ==
    UNION { { [ id |-> id, level |-> level ] :
                id \in referral_chain(profs, start_user_id, level) } :
            level \in 1..max_levels }

DistinctCodes ==
    \A u \in DOMAIN profiles : \A v \in DOMAIN profiles :
        /\ profiles[u].referral_code # NoCode
        /\ profiles[u].referral_code = profiles[v].referral_code => u = v

HashCodes ==
    << "AAAAAAAA", "BBBBBBBB" >>

NewUsers ==
    { "u4", "u5" }

UserNumber(userId) ==
    IF userId = "u4" THEN 4 ELSE 5

\* generateReferralCode: a fixed function of the seed `${userId}-${fullName}-
\* ${Date.now()}` with far fewer values than seeds, as the 32 bits of the
\* truncated digest are
generateReferralCode(userId, fullName, instant) ==
    HashCodes[((UserNumber(userId) + Len(fullName) + instant) % Len(HashCodes)) + 1]

FullNames ==
    { << "A" >> }

CreateUnchanged ==
    UNCHANGED << now, investment_plans, profit_distributions, transactions,
                 referral_commissions, withdrawal_requests, deposit_requests,
                 tx_serial, profile, finished_on, faults >>

\* lines 15-33
BeginCreateProfile(userId, fullName, sponsorId) ==
    /\ Len(calls) < MaxJobs
    /\ calls' = Append(calls,
                       [ pc |-> "check", userId |-> userId, sponsorId |-> sponsorId,
                         referralCode |-> generateReferralCode(userId, fullName, now),
                         finalReferralCode |-> generateReferralCode(userId, fullName, now),
                         counter |-> 1 ])
    /\ response' = Resp("create-profile", "entered", FALSE)
    /\ UNCHANGED profiles
    /\ CreateUnchanged

\* lines 34-45: one turn of the loop that looks for a profile holding the code
CheckReferralCode(c) ==
    LET call == calls[c]
        existingProfile == Single({ id \in DOMAIN profiles :
                                      profiles[id].referral_code = call.finalReferralCode })
    IN  /\ call.pc = "check"
        /\ calls' = [ calls EXCEPT ![c] =
              IF existingProfile = {}
              THEN [ call EXCEPT !.pc = "insert" ]
              ELSE [ call EXCEPT !.finalReferralCode =
                                     call.referralCode \o ToString(call.counter),
                                 !.counter = @ + 1 ] ]
        /\ response' = Resp("create-profile", "checked", FALSE)
        /\ UNCHANGED profiles
        /\ CreateUnchanged

\* lines 47-63 and 84-97: the insert, refused when a profile with the id exists
InsertProfile(c) ==
    LET call == calls[c]
    IN  /\ call.pc = "insert"
        /\ calls' = [ calls EXCEPT ![c].pc = "done" ]
        /\ IF call.userId \in DOMAIN profiles
           THEN /\ response' = Resp("create-profile", "500", TRUE)
                /\ UNCHANGED profiles
           ELSE /\ response' = Resp("create-profile", "success", FALSE)
                /\ profiles' =
                      [ u \in (DOMAIN profiles) \cup { call.userId } |->
                          IF u = call.userId
                          THEN ProfileRow(call.finalReferralCode, call.sponsorId, 0, 0, FALSE)
                          ELSE profiles[u] ]
        /\ CreateUnchanged

\* part_005 lines 2-14: INSERT (id, full_name, sponsor_id) ON CONFLICT (id) DO
\* NOTHING; the row holds no referral code
handle_new_user(id, sponsor_id) ==
    /\ response' = Resp("handle_new_user", "ok", FALSE)
    /\ profiles' =
          IF id \in DOMAIN profiles
          THEN profiles
          ELSE [ u \in (DOMAIN profiles) \cup { id } |->
                   IF u = id THEN ProfileRow(NoCode, sponsor_id, 0, 0, FALSE)
                   ELSE profiles[u] ]
    /\ UNCHANGED calls
    /\ CreateUnchanged

BeginCreateStep ==
    \E userId \in NewUsers, fullName \in FullNames :
        BeginCreateProfile(userId, fullName, "c1")

CreateStep ==
    \E c \in DOMAIN calls :
        \/ CheckReferralCode(c)
        \/ InsertProfile(c)

TriggerStep ==
    \E id \in NewUsers : handle_new_user(id, "c1")

NextCreate ==
    \/ Tick
    \/ BeginCreateStep
    \/ CreateStep
    \/ TriggerStep

SpecCreate ==
    Init /\ [][NextCreate]_vars

\* C19: after any sequence or interleaving of profile creations (POST
\* /api/auth/create-profile and the trigger handle_new_user) no two profiles
\* hold the same referral code, and the loop that avoids collisions
\* terminates: it never turns more often than there are profiles, plus one.
C19_ReferralCodesUnique ==
    /\ \A u \in DOMAIN profiles : \A v \in DOMAIN profiles :
          ( /\ profiles[u].referral_code # NoCode
            /\ profiles[u].referral_code = profiles[v].referral_code ) => u = v
    /\ \A c \in DOMAIN calls : calls[c].counter <= Cardinality(DOMAIN profiles) + 1

(***************************************************************************)
(* Validation of the deposit submission                                    *)
(***************************************************************************)
\* expectedAmount as posted: missing, not a number, below the minimum,
\* valid, a number followed by letters, above the maximum
PostedAmounts ==
    { << >>, << "a" >>, << "5" >>, << "1", "0", "0" >>, << "1", "0", "0", "a" >>,
      << "5", "0", "0", "0", "1" >> }

PostAnyStep ==
    \E userId \in Depositors \cup { NoCode, "u9" }, txHash \in TxHashes \cup { NoCode },
       expectedAmount \in PostedAmounts, insertError \in BOOLEAN :
        PostDeposit(userId, txHash, expectedAmount, insertError)

PutAnyStep ==
    \E transactionId \in 0..tx_serial, approve \in { "true", "false", "undefined" } :
        PutDeposit(transactionId, approve, FALSE, [ level |-> 0, call |-> "none" ])

NextPost ==
    \/ PostAnyStep
    \/ PutAnyStep

SpecPost ==
    Init /\ [][NextPost]_vars

\* the whole string is a number
IsNumeric(str) ==
    str # << >> /\ \A i \in DOMAIN str : DigitValue(str[i]) # NoAmount

\* C12: POST /api/bsc/deposit rejects with status 400 every request whose
\* userId or txHash is missing, or whose expectedAmount is missing,
\* non-numeric, below 10 or above 50000, and then inserts no transaction row
\* and changes no profile.
C12_InvalidDepositRejected ==
    [][ ( /\ response'.op = "POST deposit"
          /\ \/ response'.userId = NoCode
             \/ response'.txHash = NoCode
             \/ ~ IsNumeric(response'.expectedAmount)
             \/ parseFloat(response'.expectedAmount) < minDeposit
             \/ parseFloat(response'.expectedAmount) > maxDeposit )
          => /\ response'.result = "400"
             /\ transactions' = transactions
             /\ profiles' = profiles ]_vars

(***************************************************************************)
(* The administrative stored procedures, called by an administrator (u1)   *)
(* and by an ordinary user (u2)                                            *)
(***************************************************************************)
AdminAmount ==
    2000

\* the callers of the fund and token procedures; the administrator's calls
\* of the fund procedures are followed in SpecWd
OrdinaryCallers ==
    { "u2" }

AdminProcedures ==
    { "admin_add_funds_to_user", "admin_deduct_funds_from_user",
      "admin_add_jarvis_tokens", "admin_deduct_jarvis_tokens",
      "approve_withdrawal_request", "reject_withdrawal_request",
      "process_manual_deposit_approval", "reject_manual_deposit" }

FundsCall ==
    \E caller \in OrdinaryCallers :
        \/ admin_add_funds_to_user(caller, "u2", AdminAmount)
        \/ admin_deduct_funds_from_user(caller, "u2", AdminAmount)

TokensCall ==
    \E caller \in OrdinaryCallers :
        \/ admin_add_jarvis_tokens(caller, "u2", AdminAmount)
        \/ admin_deduct_jarvis_tokens(caller, "u2", AdminAmount)

WithdrawalCall ==
    \E caller \in Callers, p_request_id \in 1..MaxRequests :
        \/ approve_withdrawal_request(caller, p_request_id)
        \/ reject_withdrawal_request(caller, p_request_id)

ManualDepositCall ==
    \E caller \in Callers, p_request_id \in 1..MaxRequests :
        \/ process_manual_deposit_approval(caller, p_request_id, caller, FALSE)
        \/ reject_manual_deposit(caller, p_request_id, caller)

NextAdmin ==
    \/ WithdrawalRequestStep
    \/ DepositRequestStep
    \/ FundsCall
    \/ TokensCall
    \/ WithdrawalCall
    \/ ManualDepositCall

SpecAdmin ==
    Init /\ [][NextAdmin]_vars

\* C11: every stored procedure that performs an administrative balance or
\* request-status change raises an authorization error and changes no row
\* when the caller is not flagged is_admin.
C11_NonAdminRaises ==
    [][ ( response'.op \in AdminProcedures /\ ~ IsAdmin(response'.caller) )
          => /\ response'.result = "raise_access_denied"
             /\ UNCHANGED << profiles, transactions, withdrawal_requests,
                             deposit_requests, investment_plans, profit_distributions,
                             referral_commissions >> ]_vars

(***************************************************************************)
(* The operations that write investment_plans, with the admin fund         *)
(* procedures, from the end of the day of a first investment               *)
(***************************************************************************)
\* u2 invests again, every write succeeding
PlansInvest ==
    \E investAmount \in InvestAmounts : handleInvest("u2", investAmount, "none", NoFault)

\* the administrator u1 adds 20.00 to the wallet of u2 or deducts them
PlansFunds ==
    \/ admin_add_funds_to_user("u1", "u2", AdminAmount)
    \/ admin_deduct_funds_from_user("u1", "u2", AdminAmount)

NextPlans ==
    \/ Tick
    \/ FetchStep
    \/ PlansInvest
    \/ LedgerDistribute
    \/ ResetScript
    \/ PlansFunds

SpecPlans ==
    InitLedger /\ [][NextPlans]_vars

\* C21: the investment_amount of an existing investment plan is immutable:
\* no profit distribution run, reset script, investment that creates another
\* plan or admin procedure changes the investment_amount of a plan, and no
\* plan is removed or renumbered.
C21_InvestmentAmountImmutable ==
    [][ /\ Len(investment_plans') >= Len(investment_plans)
        /\ \A i \in DOMAIN investment_plans :
              /\ investment_plans'[i].id = investment_plans[i].id
              /\ investment_plans'[i].investment_amount
                    = investment_plans[i].investment_amount ]_vars

\* the reset script has run after a distribution had credited the first plan
\* and after a second plan was created: the first plan holds its 1000.00
C21_Witness ==
    /\ response.op = "reset"
    /\ Len(investment_plans) = 2
    /\ profit_distributions # << >>
    /\ investment_plans[1].investment_amount = InvestedAmount
    /\ investment_plans[1].total_profit_earned = 0

(***************************************************************************)
(* PUT /api/bsc/deposit statement by statement (SpecPut): the select of    *)
(* the pending transaction, the rpc, the referral commissions and the      *)
(* status update are separate requests to the database, and several       *)
(* approvals can be in flight.                                             *)
(***************************************************************************)
PutUnchanged ==
    UNCHANGED << now, investment_plans, profit_distributions, withdrawal_requests,
                 deposit_requests, profile, finished_on >>

\* lines 147-157: the select of the pending deposit; approve is a boolean
SelectDeposit(transactionId, approve) ==
    LET found == Single({ t \in Rows(transactions) :
                            /\ t.id = transactionId
                            /\ t.transaction_type = "deposit"
                            /\ t.status = "pending" })
        transaction == CHOOSE t \in found : TRUE
    IN  /\ Len(calls) < MaxJobs
        /\ IF found = {}
           THEN /\ response' = Resp("PUT deposit", "404", FALSE)
                /\ UNCHANGED calls
           ELSE /\ response' = Resp("PUT deposit", "selected", FALSE)
                /\ calls' = Append(calls,
                                   [ pc |-> IF approve THEN "rpc" ELSE "delete",
                                     transactionId |-> transactionId,
                                     transaction |-> transaction,
                                     invoked |-> FALSE, paid |-> FALSE ])
        /\ UNCHANGED << profiles, transactions, referral_commissions, tx_serial, faults >>
        /\ PutUnchanged

\* lines 159-182: the rpc process_bsc_deposit
ProcessDeposit(c, depositError) ==
    LET transaction == calls[c].transaction
        depositAmount == transaction.amount
        netAmount == depositAmount - fee(depositAmount)
        deposited == process_bsc_deposit(Db, transaction.user_id, netAmount)
    IN  /\ calls[c].pc = "rpc"
        /\ Fail(IF depositError THEN 1 ELSE 0)
        /\ IF depositError
           THEN /\ response' = Resp("PUT deposit", "500", TRUE)
                /\ calls' = [ calls EXCEPT ![c].pc = "done", ![c].invoked = TRUE ]
                /\ UNCHANGED profiles
           ELSE /\ response' = Resp("PUT deposit", "deposited", FALSE)
                /\ calls' = [ calls EXCEPT ![c].pc = "commissions", ![c].invoked = TRUE ]
                /\ profiles' = deposited.profiles
        /\ UNCHANGED << transactions, referral_commissions, tx_serial >>
        /\ PutUnchanged

\* lines 184-196: referralService.processReferralCommissions
PayDepositCommissions(c) ==
    LET transaction == calls[c].transaction
        referral == processReferralCommissions(Db, transaction.user_id,
                                               transaction.amount, NoFault)
    IN  /\ calls[c].pc = "commissions"
        /\ tx_serial < MaxTx
        /\ response' = Resp("PUT deposit", "commissions", FALSE)
        /\ calls' = [ calls EXCEPT
                        ![c].pc = "complete",
                        ![c].paid = Len(referral.db.referral_commissions)
                                       > Len(referral_commissions) ]
        /\ profiles' = referral.db.profiles
        /\ transactions' = referral.db.transactions
        /\ referral_commissions' = referral.db.referral_commissions
        /\ tx_serial' = referral.db.tx_serial
        /\ UNCHANGED faults
        /\ PutUnchanged

\* lines 198-205 and 236-239: the status update, whose result is not read
CompleteDeposit(c, updateError) ==
    /\ calls[c].pc = "complete"
    /\ Fail(IF updateError THEN 1 ELSE 0)
    /\ response' = Resp("PUT deposit approve", "success", updateError)
    /\ calls' = [ calls EXCEPT ![c].pc = "done" ]
    /\ transactions' =
          IF updateError
          THEN transactions
          ELSE [ i \in DOMAIN transactions |->
                   IF transactions[i].id = calls[c].transactionId
                   THEN [ transactions[i] EXCEPT !.status = "completed" ]
                   ELSE transactions[i] ]
    /\ UNCHANGED << profiles, referral_commissions, tx_serial >>
    /\ PutUnchanged

\* lines 246-256: the rejection
DeleteDeposit(c) ==
    /\ calls[c].pc = "delete"
    /\ response' = Resp("PUT deposit", "success", FALSE)
    /\ calls' = [ calls EXCEPT ![c].pc = "done" ]
    /\ transactions' = SelectSeq(transactions,
                                 LAMBDA t : t.id # calls[c].transactionId)
    /\ UNCHANGED << profiles, referral_commissions, tx_serial, faults >>
    /\ PutUnchanged

PutPostStep ==
    \E userId \in Depositors, txHash \in TxHashes, expectedAmount \in DepositAmounts :
        PostDeposit(userId, txHash, expectedAmount, FALSE)

SelectDepositStep ==
    \E transactionId \in 1..tx_serial, approve \in BOOLEAN :
        SelectDeposit(transactionId, approve)

ApprovalStep ==
    \E c \in DOMAIN calls :
        \/ \E depositError \in BOOLEAN : ProcessDeposit(c, depositError)
        \/ PayDepositCommissions(c)
        \/ \E updateError \in BOOLEAN : CompleteDeposit(c, updateError)
        \/ DeleteDeposit(c)

NextPut ==
    \/ PutPostStep
    \/ SelectDepositStep
    \/ ApprovalStep

SpecPut ==
    Init /\ [][NextPut]_vars

\* the calls for a transaction that reached the rpc, and those that paid
\* commissions
Invocations(transactionId) ==
    { c \in DOMAIN calls : calls[c].transactionId = transactionId /\ calls[c].invoked }

Payments(transactionId) ==
    { c \in DOMAIN calls : calls[c].transactionId = transactionId /\ calls[c].paid }

\* C27: each pending deposit transaction is credited at most once: across
\* any sequence or interleaving of PUT /api/bsc/deposit calls with
\* approve = true for the same transactionId, a call that fails or stops
\* after process_bsc_deposit and before the status update included,
\* process_bsc_deposit is invoked at most once for it and its referral
\* commissions are paid at most once.
C27_DepositCreditedOnce ==
    \A transactionId \in 1..tx_serial :
        /\ Cardinality(Invocations(transactionId)) <= 1
        /\ Cardinality(Payments(transactionId)) <= 1

(***************************************************************************)
(* approve_withdrawal_request and admin_deduct_funds_from_user statement   *)
(* by statement (SpecWdRace).  A call reads the request and the balance    *)
(* with plain SELECTs, each seeing what is committed at that moment; its   *)
(* UPDATEs lock the rows they write until the call commits, so the writes  *)
(* of one call are one step, applied to the balance committed by then.     *)
(***************************************************************************)
WdRaceUnchanged ==
    UNCHANGED << now, investment_plans, profit_distributions, referral_commissions,
                 deposit_requests, profile, finished_on, faults >>

\* fix_withdrawal_approval_logic.sql lines 13-38: the checks
CheckWithdrawal(caller, p_request_id) ==
    LET call == SqlResp("approve_withdrawal_request", "checked", caller, p_request_id,
                        NoCode, NoAmount)
        found == SelectPending(p_request_id)
        withdrawal_record == CHOOSE r \in found : TRUE
        user_balance == profiles[withdrawal_record.user_id].main_wallet_balance
    IN  /\ Len(calls) < MaxJobs
        /\ IF ~ IsAdmin(caller)
           THEN Raise(call, "raise_access_denied") /\ UNCHANGED calls
           ELSE IF found = {}
           THEN Raise(call, "raise_not_found") /\ UNCHANGED calls
           ELSE IF Insufficient(user_balance, withdrawal_record.amount)
           THEN Raise(call, "raise_insufficient") /\ UNCHANGED calls
           ELSE /\ response' = call
                /\ calls' = Append(calls,
                                   [ pc |-> "update", op |-> "approve_withdrawal_request",
                                     request |-> p_request_id,
                                     user_id |-> withdrawal_record.user_id,
                                     amount |-> withdrawal_record.amount ])
                /\ UNCHANGED << profiles, transactions, withdrawal_requests, tx_serial >>
        /\ WdRaceUnchanged

\* lines 40-60: the deduction and the two status updates
ApplyWithdrawal(c) ==
    /\ calls[c].pc = "update"
    /\ calls[c].op = "approve_withdrawal_request"
    /\ profiles' = [ profiles EXCEPT
                       ![calls[c].user_id].main_wallet_balance = @ - calls[c].amount ]
    /\ withdrawal_requests' =
           SetRequestStatus(withdrawal_requests, calls[c].request, "approved")
    /\ transactions' = SetWithdrawalTxStatus(calls[c].request, "completed")
    /\ calls' = [ calls EXCEPT ![c].pc = "done" ]
    /\ response' = SqlResp("approve_withdrawal_request", "success", "u1",
                           calls[c].request, NoCode, NoAmount)
    /\ UNCHANGED tx_serial
    /\ WdRaceUnchanged

\* missing_functions_consolidated.sql lines 398-424: the checks
CheckDeduction(caller, p_user_id, p_amount) ==
    LET call == SqlResp("admin_deduct_funds_from_user", "checked", caller, 0, p_user_id,
                        p_amount)
    IN  /\ Len(calls) < MaxJobs
        /\ IF ~ IsAdmin(caller)
           THEN Raise(call, "raise_access_denied") /\ UNCHANGED calls
           ELSE IF p_amount <= 0
           THEN Raise(call, "raise_amount") /\ UNCHANGED calls
           ELSE IF p_user_id \notin DOMAIN profiles
           THEN Raise(call, "raise_user_not_found") /\ UNCHANGED calls
           ELSE IF Insufficient(profiles[p_user_id].main_wallet_balance, p_amount)
           THEN Raise(call, "raise_insufficient") /\ UNCHANGED calls
           ELSE /\ response' = call
                /\ calls' = Append(calls,
                                   [ pc |-> "update", op |-> "admin_deduct_funds_from_user",
                                     request |-> 0, user_id |-> p_user_id,
                                     amount |-> p_amount ])
                /\ UNCHANGED << profiles, transactions, withdrawal_requests, tx_serial >>
        /\ WdRaceUnchanged

\* lines 426-450: the deduction and its transaction
ApplyDeduction(c) ==
    LET inserted == InsertTransaction(Db,
                        TxRow(calls[c].user_id, "withdrawal", calls[c].amount,
                              calls[c].amount, "completed",
                              "ADMIN_DEDUCT_" \o ToString(now)))
    IN  /\ calls[c].pc = "update"
        /\ calls[c].op = "admin_deduct_funds_from_user"
        /\ tx_serial < MaxTx
        /\ profiles' = [ inserted.profiles EXCEPT
                           ![calls[c].user_id].main_wallet_balance = @ - calls[c].amount ]
        /\ transactions' = inserted.transactions
        /\ tx_serial' = inserted.tx_serial
        /\ calls' = [ calls EXCEPT ![c].pc = "done" ]
        /\ response' = SqlResp("admin_deduct_funds_from_user", "success", "u1", 0,
                               calls[c].user_id, calls[c].amount)
        /\ UNCHANGED withdrawal_requests
        /\ WdRaceUnchanged

RaceFundStep ==
    \E p_amount \in FundAmounts : admin_add_funds_to_user("u1", "u2", p_amount)

CheckWithdrawalStep ==
    \E caller \in Callers, p_request_id \in 1..MaxRequests :
        CheckWithdrawal(caller, p_request_id)

CheckDeductionStep ==
    \E caller \in Callers, p_user_id \in { "u2", "u9" }, p_amount \in FundAmounts :
        CheckDeduction(caller, p_user_id, p_amount)

ApplyStep ==
    \E c \in DOMAIN calls : ApplyWithdrawal(c) \/ ApplyDeduction(c)

NextWdRace ==
    \/ RaceFundStep
    \/ WithdrawalRequestStep
    \/ CheckWithdrawalStep
    \/ CheckDeductionStep
    \/ ApplyStep

SpecWdRace ==
    Init /\ [][NextWdRace]_vars

\* C28: main_wallet_balance is never negative in any state reachable
\* through approve_withdrawal_request and admin_deduct_funds_from_user,
\* also when two such calls for the same user, such as the approvals of two
\* different pending requests, execute concurrently.
C28_MainWalletNeverNegative ==
    \A u \in DOMAIN profiles : profiles[u].main_wallet_balance >= 0

(***************************************************************************)
(* The fund wallet: POST /api/ton/purchase and the invest page (SpecFund)  *)
(***************************************************************************)
\* tonRate = 0.1: the price of a coin, in cents
tonRate ==
    10

TonAmounts ==
    { 0, 100, 20000 }

PurchaseFails ==
    { "none", "update", "transaction" }

\* userId NoCode: the field is missing; fail names the write whose error is
\* thrown
tonPurchase(userId, tonAmount, fail) ==
    LET coinsToBuy == tonAmount
        totalCost == coinsToBuy * tonRate
        newFundBalance == profiles[userId].fund_wallet_balance - totalCost
        newTonBalance == profiles[userId].total_jarvis_tokens + coinsToBuy
        updated == [ Db EXCEPT !.profiles[userId].fund_wallet_balance = newFundBalance,
                               !.profiles[userId].total_jarvis_tokens = newTonBalance ]
        recorded == InsertTransaction(updated,
                        TxRow(userId, "ton_purchase", totalCost, totalCost, "completed",
                              NoCode))
        reaches_update == /\ userId \in DOMAIN profiles
                          /\ tonAmount > 0
                          /\ ~ (totalCost > profiles[userId].fund_wallet_balance)
    IN  /\ tx_serial < MaxTx
        /\ fail # "none" => reaches_update
        /\ Fail(IF fail # "none" THEN 1 ELSE 0)
        /\ IF userId = NoCode
           THEN /\ response' = Resp("POST ton purchase", "400", FALSE)
                /\ UNCHANGED << profiles, transactions, tx_serial >>
           ELSE IF ~ (tonAmount > 0)
           THEN /\ response' = Resp("POST ton purchase", "400", FALSE)
                /\ UNCHANGED << profiles, transactions, tx_serial >>
           ELSE IF userId \notin DOMAIN profiles
           THEN /\ response' = Resp("POST ton purchase", "404", FALSE)
                /\ UNCHANGED << profiles, transactions, tx_serial >>
           ELSE IF totalCost > profiles[userId].fund_wallet_balance
           THEN /\ response' = Resp("POST ton purchase", "400_insufficient", FALSE)
                /\ UNCHANGED << profiles, transactions, tx_serial >>
           ELSE IF fail = "update"
           THEN /\ response' = Resp("POST ton purchase", "500", TRUE)
                /\ UNCHANGED << profiles, transactions, tx_serial >>
           ELSE IF fail = "transaction"
           THEN /\ response' = Resp("POST ton purchase", "500", TRUE)
                /\ profiles' = updated.profiles
                /\ UNCHANGED << transactions, tx_serial >>
           ELSE /\ response' = Resp("POST ton purchase", "success", FALSE)
                /\ profiles' = recorded.profiles
                /\ transactions' = recorded.transactions
                /\ tx_serial' = recorded.tx_serial
        /\ UNCHANGED << now, investment_plans, profit_distributions, referral_commissions,
                        withdrawal_requests, deposit_requests, profile, finished_on,
                        calls >>

\* the user whose fund wallet is followed
Spender ==
    "u2"

FundFetch ==
    fetchProfile(Spender)

FundInvest ==
    \E investAmount \in InvestAmounts : handleInvest(Spender, investAmount, "none", NoFault)

FundPurchase ==
    \E userId \in { Spender, NoCode, "u9" }, tonAmount \in TonAmounts :
        tonPurchase(userId, tonAmount, "none")

NextFund ==
    \/ FundFetch
    \/ FundInvest
    \/ FundPurchase

SpecFund ==
    Init /\ [][NextFund]_vars

\* the costs of the purchases and investments of u that reported success:
\* each of them, and nothing else, has inserted a completed transaction
Spending(u) ==
    { t \in Rows(transactions) :
        t.user_id = u /\ t.transaction_type \in { "ton_purchase", "investment" } }

RECURSIVE AmountSum(_)
AmountSum(rows) ==
    IF rows = {} THEN 0
    ELSE LET t == CHOOSE r \in rows : TRUE
         IN  t.amount + AmountSum(rows \ { t })

\* C29: the fund wallet is never negative and never spent twice: after any
\* sequence of TON purchases and investments by one user the
\* fund_wallet_balance equals the initial balance less the costs of all the
\* purchases and investments that reported success, and is >= 0.
C29_FundWalletSpentOnce ==
    /\ profiles[Spender].fund_wallet_balance >= 0
    /\ profiles[Spender].fund_wallet_balance =
          InitProfiles[Spender].fund_wallet_balance - AmountSum(Spending(Spender))

(***************************************************************************)
(* processReferralCommissions on profiles tables with cycles (SpecCycle)   *)
(***************************************************************************)
CycleStep ==
    \E userId \in DOMAIN profiles, amount \in ReferralAmounts :
        ProcessCommissions(userId, amount, NoFault)

NextCycle ==
    CycleStep

SpecCycle ==
    InitWalk /\ [][NextCycle]_vars

\* C30: a user never earns a commission on their own transaction: on every
\* profiles table, those where the sponsor_id links form a cycle or where a
\* sponsor_id is the profile's own referral_code included,
\* processReferralCommissions never credits the main_wallet_balance of the
\* transacting user and never credits one ancestor at two levels for one
\* transaction.
C30_NoSelfCommission ==
    [][ response'.op = "processReferralCommissions"
        => LET userId == response'.userId
               paid == SubSeq(referral_commissions', Len(referral_commissions) + 1,
                              Len(referral_commissions'))
           IN  /\ profiles'[userId].main_wallet_balance =
                     profiles[userId].main_wallet_balance
               /\ \A i \in DOMAIN paid : paid[i].referrer_id # userId
               /\ \A i \in DOMAIN paid : \A j \in DOMAIN paid :
                     paid[i].referrer_id = paid[j].referrer_id => i = j
      ]_vars

====
